---- MODULE Spec2Model ----
(***************************************************************************)
(* Model of the quant-trainer frontend (App.tsx, api.ts): the React state  *)
(* of the App component, its event handlers, and the continuations of its  *)
(* async handlers after each awaited remote call.                          *)
(*                                                                         *)
(* An async handler is a task.  A task keeps the values of the render in   *)
(* which it was invoked (its closure): the handler body reads `questions`, *)
(* `selectedQuestion` and `trainingQuestion` from that render, also after  *)
(* an await, while every setX call writes the live component state.        *)
(* A remote call is answered in one step: the backend handles the request  *)
(* (with the credential the request was sent with) and the awaiting task   *)
(* resumes with the outcome.                                               *)
(***************************************************************************)
EXTENDS Integers, Sequences, FiniteSets, TLC

\* ---- bounds --------------------------------------------------------------
NQ == 2                       \* questions the backend may hold
MaxTasks == 2                 \* async handlers in flight at once
MaxTicks == 1                 \* advances of the wall clock
MaxSeqTasks == 1              \* the same under the one-at-a-time discipline
MaxAttempts == 2              \* attempts the backend counts per question
MaxTopic == 2                 \* topics in use
MaxTag == 2                   \* tags in use
MaxCatalog == 3               \* questions of a catalog given to the filter

\* ---- program constants ---------------------------------------------------
DefaultDeltaSec == 60         \* elapsed seconds when no start time is set
MinDeltaSec == 1              \* Math.max(1, ...)
MsPerSec == 1000
TickMs == 1500                \* one advance of Date.now() in the model

QIds == 1..NQ

\* ---- values --------------------------------------------------------------
\* `null` of an optional Question / number / Stats
NoQuestion == [id |-> 0, is_solved |-> FALSE, attempts |-> 0]
NoTime == -1
NoStats == [total_questions |-> -1, solved_questions |-> -1]

Question(i, s, a) == [id |-> i, is_solved |-> s, attempts |-> a]

\* defaultFilters (App.tsx 60-67). A string that is only compared is a TLA+
\* string; a topic or a tag, which is also sorted, is a positive number, its
\* rank in the order of Array.prototype.sort, and 0 is the empty string; the
\* search text is a sequence of characters. The arrays topics and tags are
\* only tested with includes / every and never hold a value twice: sets.
defaultFilters ==
  [difficulty |-> "", company |-> "", topics |-> {}, tags |-> {}, search |-> <<>>,
   onlyUnsolved |-> FALSE]

VARIABLES
  \* React state of App (App.tsx 121-151)
  user, questions, stats, filters, selectedQuestion, view,
  authError, loading,
  startTime, showHint, showSolution, showAnswer, infoMessage,
  trainingQuestion, trainingModeRunning, trainingStartTime, trainingElapsedSec,
  trainingShowHint, trainingShowSolution, trainingShowAnswer, trainingInfoMessage,
  resettingProgress,
  \* the intervals created by the training timer effect and not yet cleared,
  \* each with the start timestamp its callback closes over (App.tsx 497-509)
  tickers,
  \* localStorage "token" (api.ts 50-60)
  token,
  \* environment: Date.now(), the backend's questions, solved set and attempt
  \* counts, and the number of handlers the user lets run at once
  now, srvN, srvSolved, srvAttempts, limit,
  \* async handlers awaiting a remote call
  tasks,
  \* history: the (view, id) pairs whose mark-solved has completed with its
  \* submission and refresh successful; whether Stop was the last of Start
  \* and Stop to be invoked
  markedOk, stopped,
  \* history: whether the last confirmation prompt of the reset button was
  \* answered with Cancel; whether the last confirmed reset ended with the
  \* failure alert
  declined, alerted

authVars == <<user, token, authError, loading>>
catVars == <<questions, stats>>
detailVars == <<selectedQuestion, startTime, showHint, showSolution, showAnswer, infoMessage>>
trainVars == <<trainingQuestion, trainingModeRunning, trainingStartTime, trainingElapsedSec,
               trainingShowHint, trainingShowSolution, trainingShowAnswer, trainingInfoMessage,
               tickers>>
srvVars == <<srvN, srvSolved, srvAttempts>>
envVars == <<now, srvVars, limit>>
histVars == <<markedOk, stopped, declined, alerted>>
miscVars == <<resettingProgress, filters>>
vars == <<authVars, catVars, detailVars, trainVars, view, miscVars, envVars, tasks, histVars>>

\* ---- pure helpers --------------------------------------------------------

\* qs.find((q) => q.id === id): the first match, or undefined
find(qs, id) ==
  IF \E k \in 1..Len(qs) : qs[k].id = id
  THEN qs[CHOOSE k \in 1..Len(qs) : qs[k].id = id /\ \A j \in 1..(k-1) : qs[j].id /= id]
  ELSE NoQuestion

\* Math.floor(x / 1000)
RoundDiv_floor(x, d) == x \div d

\* Math.round(x / 1000) for an integer x: round half up
RoundDiv(x, d) == (2 * x + d) \div (2 * d)

Max(a, b) == IF a >= b THEN a ELSE b

\* deltaSec without the floor of one second
deltaSec_nofloor(end, start) ==
  IF start /= NoTime THEN RoundDiv(end - start, MsPerSec) ELSE DefaultDeltaSec

\* deltaSec of handleMarkSolved / handleTrainingMark
deltaSec(end, start) ==
  IF start /= NoTime THEN Max(MinDeltaSec, RoundDiv(end - start, MsPerSec)) ELSE DefaultDeltaSec

\* a pool without the fallback to the full catalog
pickPool_nofallback(qs) == SelectSeq(qs, LAMBDA q : ~q.is_solved)

\* the pool of pickRandomTrainingQuestion
pickPool(qs) ==
  LET unsolved == SelectSeq(qs, LAMBDA q : ~q.is_solved)
  IN IF Len(unsolved) > 0 THEN unsolved ELSE qs

\* the values pickRandomTrainingQuestion can return on the catalog qs
pickRandomTrainingQuestion(qs) ==
  IF Len(qs) = 0 THEN {NoQuestion}
  ELSE IF Len(pickPool(qs)) = 0 THEN {NoQuestion}
  ELSE {pickPool(qs)[k] : k \in 1..Len(pickPool(qs))}

\* ---- backend (remote service) -------------------------------------------

\* GET /questions: the full catalog with the user's solved flags and
\* attempt counts
ServerCatalog == [k \in 1..srvN |-> Question(k, k \in srvSolved, srvAttempts[k])]

\* GET /stats
ServerStats == [total_questions |-> srvN, solved_questions |-> Cardinality(srvSolved)]

\* POST /questions/{id}/progress
ServerProgress(id, solved) == IF solved /\ id \in 1..srvN THEN srvSolved \cup {id} ELSE srvSolved

\* the attempt counts after POST /questions/{id}/progress: every progress
\* event is one more attempt
ServerAttempts(id) ==
  IF id \in 1..srvN THEN [srvAttempts EXCEPT ![id] = @ + 1] ELSE srvAttempts

\* POST /progress/reset: no question is solved or attempted any more
ServerReset == [k \in 1..srvN |-> 0]

\* `Ошибка при сохранении прогресса: ${err.message}`: err.message names the
\* request that failed (api.ts 92)
ErrorMessage(what, pc) == [what |-> what, request |-> pc]

\* the other values of infoMessage / trainingInfoMessage; "none" is null
Message(what) == [what |-> what, request |-> "none"]

\* ---- tasks ---------------------------------------------------------------

\* a handler suspended at `await pc(...)`, with the closure of its render
\* (pc: the call awaited; tok: whether the request carries a token; qid, delta,
\* solved: the arguments of updateProgress; c...: the closure)
Task(kind, pc, qid, delta, solved, cQuestions, cSel, cTrain) ==
  [kind |-> kind, pc |-> pc, tok |-> token, qid |-> qid, delta |-> delta, solved |-> solved,
   cQuestions |-> cQuestions, cSel |-> cSel, cTrain |-> cTrain]

Remove(s, i) == [k \in 1..(Len(s) - 1) |-> IF k < i THEN s[k] ELSE s[k + 1]]

Replace(s, i, t) == [s EXCEPT ![i] = t]

CanSpawn == Len(tasks) < limit

\* ---- initial state -------------------------------------------------------

\* useState initial values; the mount effect runs init(), which awaits
\* getCurrentUser() when a token is stored (App.tsx 183-200)
InitApp ==
  /\ user = FALSE /\ questions = <<>> /\ stats = NoStats
  /\ selectedQuestion = NoQuestion /\ view = "questions"
  /\ authError = FALSE /\ loading = FALSE
  /\ startTime = NoTime /\ showHint = FALSE /\ showSolution = FALSE /\ showAnswer = FALSE
  /\ infoMessage = Message("none")
  /\ trainingQuestion = NoQuestion /\ trainingModeRunning = FALSE
  /\ trainingStartTime = NoTime /\ trainingElapsedSec = 0
  /\ trainingShowHint = FALSE /\ trainingShowSolution = FALSE /\ trainingShowAnswer = FALSE
  /\ trainingInfoMessage = Message("none")
  /\ resettingProgress = FALSE
  /\ filters = defaultFilters
  /\ tickers = <<>>
  /\ token \in BOOLEAN
  /\ now = TickMs
  /\ srvN \in 0..NQ
  /\ srvSolved \in SUBSET (1..srvN)
  /\ srvAttempts = [k \in 1..srvN |-> IF k \in srvSolved THEN 1 ELSE 0]
  /\ tasks = IF token
             THEN << [kind |-> "init", pc |-> "getCurrentUser", tok |-> TRUE, qid |-> 0,
                      delta |-> 0, solved |-> FALSE, cQuestions |-> <<>>, cSel |-> 0, cTrain |-> 0] >>
             ELSE <<>>
  /\ markedOk = {}
  /\ stopped = FALSE
  /\ declined = FALSE
  /\ alerted = FALSE

\* handlers may overlap
Init == InitApp /\ limit = MaxTasks

\* the user lets an operation finish before starting the next one
InitSeq == InitApp /\ limit = MaxSeqTasks

\* likewise, with a backend of at most one question
InitSingle == InitSeq /\ srvN <= 1

\* ---- environment ---------------------------------------------------------

\* the wall clock read by Date.now() advances
Tick ==
  /\ now < (MaxTicks + 1) * TickMs
  /\ now' = now + TickMs
  /\ UNCHANGED <<authVars, catVars, detailVars, trainVars, view, miscVars,
                 srvVars, limit, tasks, histVars>>

\* the wall clock is set back (Date.now() is not monotonic)
ClockBack ==
  /\ now > TickMs
  /\ now' = now - TickMs
  /\ UNCHANGED <<authVars, catVars, detailVars, trainVars, view, miscVars,
                 srvVars, limit, tasks, histVars>>

\* ---- training timer -----------------------------------------------------

\* the condition under which the timer effect creates an interval (App.tsx 498)
Ticking(running, start) == running /\ start /= NoTime /\ start /= 0

\* the timer effect without its cleanup function
timerEffect_nocleanup ==
  tickers' =
    IF <<trainingModeRunning', trainingStartTime'>> = <<trainingModeRunning, trainingStartTime>>
    THEN tickers
    ELSE tickers \o (IF Ticking(trainingModeRunning', trainingStartTime')
                     THEN <<trainingStartTime'>> ELSE <<>>)

\* the training timer effect (App.tsx 497-509), run after a render in which
\* trainingModeRunning or trainingStartTime changed: the cleanup of the
\* previous run clears the interval that run created, then the effect creates
\* a new interval if the session is running with a start timestamp
timerEffect ==
  tickers' =
    IF <<trainingModeRunning', trainingStartTime'>> = <<trainingModeRunning, trainingStartTime>>
    THEN tickers
    ELSE (IF Ticking(trainingModeRunning, trainingStartTime)
          THEN SubSeq(tickers, 1, Len(tickers) - 1) ELSE tickers)
         \o (IF Ticking(trainingModeRunning', trainingStartTime')
             THEN <<trainingStartTime'>> ELSE <<>>)

\* an interval fires (App.tsx 500-504)
tickerFire ==
  /\ \E k \in 1..Len(tickers) :
       trainingElapsedSec' = Max(0, (now - tickers[k]) \div MsPerSec)
  /\ UNCHANGED <<authVars, catVars, detailVars, trainingQuestion, trainingModeRunning,
                 trainingStartTime, trainingShowHint, trainingShowSolution, trainingShowAnswer,
                 trainingInfoMessage, tickers, view, miscVars, envVars, tasks, histVars>>

\* ---- detail view ---------------------------------------------------------

\* a click on a row that resets the detail view even when the row is the
\* open question
handleSelectQuestion_always(q) ==
  /\ user /\ view = "questions"
  /\ selectedQuestion' = q
  /\ startTime' = now
  /\ showHint' = FALSE /\ showSolution' = FALSE /\ showAnswer' = FALSE
  /\ infoMessage' = Message("none")
  /\ UNCHANGED <<authVars, catVars, trainVars, view, miscVars, envVars, tasks, histVars>>

\* click on a row of the question list (App.tsx 401-413, 1102)
handleSelectQuestion(q) ==
  /\ user /\ view = "questions"
  /\ IF selectedQuestion.id /= 0 /\ selectedQuestion.id = q.id
     THEN /\ startTime' = now
          /\ UNCHANGED <<selectedQuestion, showHint, showSolution, showAnswer, infoMessage>>
     ELSE /\ selectedQuestion' = q
          /\ startTime' = now
          /\ showHint' = FALSE /\ showSolution' = FALSE /\ showAnswer' = FALSE
          /\ infoMessage' = Message("none")
  /\ UNCHANGED <<authVars, catVars, trainVars, view, miscVars, envVars, tasks, histVars>>

\* the three reveal buttons of the detail view (App.tsx 1246-1254)
toggleReveal(which) ==
  /\ user /\ view = "questions" /\ selectedQuestion.id /= 0
  /\ showHint' = IF which = "hint" THEN ~showHint ELSE showHint
  /\ showSolution' = IF which = "solution" THEN ~showSolution ELSE showSolution
  /\ showAnswer' = IF which = "answer" THEN ~showAnswer ELSE showAnswer
  /\ UNCHANGED <<authVars, catVars, selectedQuestion, startTime, infoMessage, trainVars, view,
                 miscVars, envVars, tasks, histVars>>

\* a handleMarkSolved that only reports that it is busy while a mark of the
\* detail view is still in flight
handleMarkSolved_locked(solved) ==
  /\ user /\ view = "questions"
  /\ IF selectedQuestion.id = 0
     THEN UNCHANGED <<infoMessage, tasks>>
     ELSE IF \E i \in 1..Len(tasks) : tasks[i].kind = "mark"
     THEN /\ infoMessage' = Message("busy")
          /\ UNCHANGED tasks
     ELSE IF solved /\ selectedQuestion.is_solved
     THEN /\ infoMessage' = Message("already_solved")
          /\ UNCHANGED tasks
     ELSE /\ CanSpawn
          /\ tasks' = Append(tasks, Task("mark", "updateProgress", selectedQuestion.id,
                                         deltaSec(now, startTime), solved,
                                         questions, selectedQuestion.id, trainingQuestion.id))
          /\ UNCHANGED infoMessage
  /\ UNCHANGED <<authVars, catVars, selectedQuestion, startTime, showHint, showSolution, showAnswer,
                 trainVars, view, miscVars, envVars, histVars>>

\* handleMarkSolved up to its first await (App.tsx 415-426)
handleMarkSolved(solved) ==
  /\ user /\ view = "questions"
  /\ IF selectedQuestion.id = 0
     THEN UNCHANGED <<infoMessage, tasks>>
     ELSE IF solved /\ selectedQuestion.is_solved
     THEN /\ infoMessage' = Message("already_solved")
          /\ UNCHANGED tasks
     ELSE /\ CanSpawn
          /\ tasks' = Append(tasks, Task("mark", "updateProgress", selectedQuestion.id,
                                         deltaSec(now, startTime), solved,
                                         questions, selectedQuestion.id, trainingQuestion.id))
          /\ UNCHANGED infoMessage
  /\ UNCHANGED <<authVars, catVars, selectedQuestion, startTime, showHint, showSolution, showAnswer,
                 trainVars, view, miscVars, envVars, histVars>>

\* ---- training mode -------------------------------------------------------

\* reveal buttons of which one hides what the other two have revealed
toggleTrainingReveal_exclusive(which) ==
  /\ user /\ view = "training" /\ trainingQuestion.id /= 0
  /\ trainingShowHint' = IF which = "hint" THEN ~trainingShowHint ELSE FALSE
  /\ trainingShowSolution' = IF which = "solution" THEN ~trainingShowSolution ELSE FALSE
  /\ trainingShowAnswer' = IF which = "answer" THEN ~trainingShowAnswer ELSE FALSE
  /\ UNCHANGED <<authVars, catVars, detailVars, trainingQuestion, trainingModeRunning,
                 trainingStartTime, trainingElapsedSec, trainingInfoMessage, tickers, view,
                 miscVars, envVars, tasks, histVars>>

\* the three reveal buttons of training mode (App.tsx 1360-1383)
toggleTrainingReveal(which) ==
  /\ user /\ view = "training" /\ trainingQuestion.id /= 0
  /\ trainingShowHint' = IF which = "hint" THEN ~trainingShowHint ELSE trainingShowHint
  /\ trainingShowSolution' = IF which = "solution" THEN ~trainingShowSolution ELSE trainingShowSolution
  /\ trainingShowAnswer' = IF which = "answer" THEN ~trainingShowAnswer ELSE trainingShowAnswer
  /\ UNCHANGED <<authVars, catVars, detailVars, trainingQuestion, trainingModeRunning,
                 trainingStartTime, trainingElapsedSec, trainingInfoMessage, tickers, view,
                 miscVars, envVars, tasks, histVars>>

\* a pick that enters Running without recording the start timestamp
startTrainingSession_pick_nostart(qs, msg) ==
  \E q \in pickRandomTrainingQuestion(qs) :
    IF q.id = 0
    THEN /\ trainingModeRunning' = FALSE
         /\ trainingQuestion' = NoQuestion
         /\ trainingInfoMessage' = Message("no_questions")
         /\ UNCHANGED <<trainingStartTime, trainingElapsedSec, trainingShowHint,
                        trainingShowSolution, trainingShowAnswer>>
         /\ timerEffect
    ELSE /\ trainingQuestion' = q
         /\ trainingModeRunning' = TRUE
         /\ trainingElapsedSec' = 0
         /\ trainingShowHint' = FALSE /\ trainingShowSolution' = FALSE
         /\ trainingShowAnswer' = FALSE
         /\ trainingInfoMessage' = msg
         /\ UNCHANGED trainingStartTime
         /\ timerEffect

\* lines 468-482 of startTrainingSession: pick on the catalog qs of the
\* handler's render and enter Running, or report that there is nothing to
\* train; msg is the message left by line 457 (or by whatever ran since)
startTrainingSession_pick(qs, msg) ==
  \E q \in pickRandomTrainingQuestion(qs) :
    IF q.id = 0
    THEN /\ trainingModeRunning' = FALSE
         /\ trainingQuestion' = NoQuestion
         /\ trainingInfoMessage' = Message("no_questions")
         /\ UNCHANGED <<trainingStartTime, trainingElapsedSec, trainingShowHint,
                        trainingShowSolution, trainingShowAnswer>>
         /\ timerEffect
    ELSE /\ trainingQuestion' = q
         /\ trainingModeRunning' = TRUE
         /\ trainingStartTime' = now
         /\ trainingElapsedSec' = 0
         /\ trainingShowHint' = FALSE /\ trainingShowSolution' = FALSE
         /\ trainingShowAnswer' = FALSE
         /\ trainingInfoMessage' = msg
         /\ timerEffect

\* the "Тренировка" button: startTrainingSession up to its await, or to its
\* end when the catalog is not empty (App.tsx 455-483, 699-701)
startTrainingSession ==
  /\ user
  /\ view' = "training"
  /\ IF Len(questions) = 0
     THEN /\ CanSpawn
          /\ trainingInfoMessage' = Message("none")
          /\ tasks' = Append(tasks, Task("start", "fetchQuestions", 0, 0, FALSE,
                                         questions, selectedQuestion.id, trainingQuestion.id))
          /\ UNCHANGED <<trainingQuestion, trainingModeRunning, trainingStartTime,
                         trainingElapsedSec, trainingShowHint, trainingShowSolution,
                         trainingShowAnswer, tickers>>
     ELSE /\ startTrainingSession_pick(questions, Message("none"))
          /\ UNCHANGED tasks
  /\ stopped' = FALSE
  /\ UNCHANGED <<authVars, catVars, detailVars, miscVars, envVars, markedOk>>
  /\ UNCHANGED <<declined, alerted>>

\* a Stop that keeps the informational message
stopTrainingSession_keepmessage ==
  /\ user /\ view = "training" /\ trainingQuestion.id /= 0
  /\ trainingModeRunning' = FALSE
  /\ trainingQuestion' = NoQuestion
  /\ trainingStartTime' = NoTime
  /\ trainingElapsedSec' = 0
  /\ trainingShowHint' = FALSE /\ trainingShowSolution' = FALSE /\ trainingShowAnswer' = FALSE
  /\ UNCHANGED trainingInfoMessage
  /\ timerEffect
  /\ stopped' = TRUE
  /\ UNCHANGED <<authVars, catVars, detailVars, view, miscVars, envVars, tasks, markedOk>>
  /\ UNCHANGED <<declined, alerted>>

\* the "Выйти из тренировки" button (App.tsx 485-494, 1434)
stopTrainingSession ==
  /\ user /\ view = "training" /\ trainingQuestion.id /= 0
  /\ trainingModeRunning' = FALSE
  /\ trainingQuestion' = NoQuestion
  /\ trainingStartTime' = NoTime
  /\ trainingElapsedSec' = 0
  /\ trainingShowHint' = FALSE /\ trainingShowSolution' = FALSE /\ trainingShowAnswer' = FALSE
  /\ trainingInfoMessage' = Message("none")
  /\ timerEffect
  /\ stopped' = TRUE
  /\ UNCHANGED <<authVars, catVars, detailVars, view, miscVars, envVars, tasks, markedOk>>
  /\ UNCHANGED <<declined, alerted>>

\* handleTrainingMark without the already-solved check of lines 514-517
handleTrainingMark_unchecked(solved) ==
  /\ user /\ view = "training"
  /\ IF trainingQuestion.id = 0
     THEN UNCHANGED tasks
     ELSE /\ CanSpawn
          /\ tasks' = Append(tasks, Task("tmark", "updateProgress", trainingQuestion.id,
                                         deltaSec(now, trainingStartTime), solved,
                                         questions, selectedQuestion.id, trainingQuestion.id))
  /\ UNCHANGED <<authVars, catVars, detailVars, trainVars, view, miscVars, envVars,
                 histVars>>

\* handleTrainingMark up to its first await (App.tsx 512-525)
handleTrainingMark(solved) ==
  /\ user /\ view = "training"
  /\ IF trainingQuestion.id = 0
     THEN UNCHANGED <<trainingInfoMessage, tasks>>
     ELSE IF solved /\ trainingQuestion.is_solved
     THEN /\ trainingInfoMessage' = Message("already_solved")
          /\ UNCHANGED tasks
     ELSE /\ CanSpawn
          /\ tasks' = Append(tasks, Task("tmark", "updateProgress", trainingQuestion.id,
                                         deltaSec(now, trainingStartTime), solved,
                                         questions, selectedQuestion.id, trainingQuestion.id))
          /\ UNCHANGED trainingInfoMessage
  /\ UNCHANGED <<authVars, catVars, detailVars, trainingQuestion, trainingModeRunning,
                 trainingStartTime, trainingElapsedSec, trainingShowHint, trainingShowSolution,
                 trainingShowAnswer, tickers, view, miscVars, envVars, histVars>>

\* ---- navigation and session ----------------------------------------------

\* view buttons that only switch the view
navigate_keeprunning(v) ==
  /\ user
  /\ view' = v
  /\ UNCHANGED <<authVars, catVars, detailVars, trainVars, miscVars, envVars, tasks, histVars>>

\* the "Задачи" and "Статистика" buttons (App.tsx 689-714)
navigate(v) ==
  /\ user
  /\ view' = v
  /\ trainingModeRunning' = FALSE
  /\ UNCHANGED <<authVars, catVars, detailVars, trainingQuestion, trainingStartTime,
                 trainingElapsedSec, trainingShowHint, trainingShowSolution, trainingShowAnswer,
                 trainingInfoMessage, miscVars, envVars, tasks, histVars>>
  /\ timerEffect

\* a logout that leaves the filters as they are
handleLogout_keepfilters ==
  /\ user
  /\ token' = FALSE
  /\ user' = FALSE
  /\ questions' = <<>>
  /\ stats' = NoStats
  /\ selectedQuestion' = NoQuestion
  /\ startTime' = NoTime
  /\ trainingModeRunning' = FALSE
  /\ trainingQuestion' = NoQuestion
  /\ markedOk' = {}
  /\ UNCHANGED stopped
  /\ UNCHANGED <<authError, loading, showHint, showSolution, showAnswer, infoMessage,
                 trainingStartTime, trainingElapsedSec, trainingShowHint, trainingShowSolution,
                 trainingShowAnswer, trainingInfoMessage, view, resettingProgress, filters,
                 envVars, tasks>>
  /\ timerEffect
  /\ UNCHANGED <<declined, alerted>>

\* the "Выйти" button (App.tsx 318-328, api.ts 150-152)
handleLogout ==
  /\ user
  /\ token' = FALSE
  /\ user' = FALSE
  /\ questions' = <<>>
  /\ stats' = NoStats
  /\ selectedQuestion' = NoQuestion
  /\ startTime' = NoTime
  /\ filters' = defaultFilters
  /\ trainingModeRunning' = FALSE
  /\ trainingQuestion' = NoQuestion
  /\ markedOk' = {}
  /\ UNCHANGED stopped
  /\ UNCHANGED <<authError, loading, showHint, showSolution, showAnswer, infoMessage,
                 trainingStartTime, trainingElapsedSec, trainingShowHint, trainingShowSolution,
                 trainingShowAnswer, trainingInfoMessage, view, resettingProgress, envVars,
                 tasks>>
  /\ timerEffect
  /\ UNCHANGED <<declined, alerted>>

\* submit of the login form in mode authMode, up to `await register(...)` or
\* `await login(...)` (App.tsx 296-305, 627)
handleAuthSubmit(authMode) ==
  /\ ~user /\ ~loading
  /\ CanSpawn
  /\ authError' = FALSE
  /\ loading' = TRUE
  /\ tasks' = Append(tasks, Task("auth", authMode, 0, 0, FALSE,
                                 questions, selectedQuestion.id, trainingQuestion.id))
  /\ UNCHANGED <<user, token, catVars, detailVars, trainVars, view, miscVars,
                 envVars, histVars>>

\* a reset button that dispatches whatever the answer to the prompt
handleResetProgress_unconfirmed(confirmed) ==
  /\ user /\ view = "stats" /\ ~resettingProgress
  /\ declined' = ~confirmed
  /\ CanSpawn
  /\ resettingProgress' = TRUE
  /\ tasks' = Append(tasks, Task("reset", "resetProgress", 0, 0, FALSE,
                                 questions, selectedQuestion.id, trainingQuestion.id))
  /\ alerted' = IF confirmed THEN FALSE ELSE alerted
  /\ UNCHANGED <<authVars, catVars, detailVars, trainVars, view, filters, envVars,
                 markedOk, stopped>>

\* the "Сбросить прогресс" button of the stats view up to
\* `await resetProgress()`; confirmed is the answer to window.confirm
\* (App.tsx 330-334, 1453-1457)
handleResetProgress(confirmed) ==
  /\ user /\ view = "stats" /\ ~resettingProgress
  /\ declined' = ~confirmed
  /\ IF ~confirmed
     THEN UNCHANGED <<resettingProgress, tasks>>
     ELSE /\ CanSpawn
          /\ resettingProgress' = TRUE
          /\ tasks' = Append(tasks, Task("reset", "resetProgress", 0, 0, FALSE,
                                         questions, selectedQuestion.id, trainingQuestion.id))
  /\ alerted' = IF confirmed THEN FALSE ELSE alerted
  /\ UNCHANGED <<authVars, catVars, detailVars, trainVars, view, filters, envVars,
                 markedOk, stopped>>

\* ---- filters --------------------------------------------------------------

\* String.prototype.toLowerCase on the characters used here
toLowerCase(str) ==
  [k \in 1..Len(str) |-> IF str[k] = "A" THEN "a" ELSE str[k]]

\* a test for sub at the start of str only
includes_prefix(str, sub) ==
  Len(sub) <= Len(str) /\ SubSeq(str, 1, Len(sub)) = sub

\* String.prototype.includes
includes(str, sub) ==
  \E k \in 0..(Len(str) - Len(sub)) : SubSeq(str, k + 1, k + Len(sub)) = sub

\* a filter for which one of the selected tags is enough
matchesFilters_anytag(q, f) ==
  /\ ~(f.difficulty /= "" /\ q.difficulty /= f.difficulty)
  /\ ~(f.topics /= {} /\ (q.topic = 0 \/ q.topic \notin f.topics))
  /\ ~(f.company /= "" /\ f.company \notin q.companies)
  /\ ~(f.tags /= {} /\ ~(\E t \in f.tags : t \in q.tags))
  /\ ~(f.onlyUnsolved /\ q.is_solved)
  /\ ~(f.search /= <<>>
       /\ ~includes(toLowerCase(q.title \o <<" ">> \o q.task_text), toLowerCase(f.search)))

\* the callback of questions.filter in filteredQuestions, for criteria f
\* (App.tsx 272-290). An absent optional field reads as the empty value, which
\* every test of the callback treats like undefined. The attributes of q are
\* read only under an active criterion.
matchesFilters(q, f) ==
  /\ ~(f.difficulty /= "" /\ q.difficulty /= f.difficulty)
  /\ ~(f.topics /= {} /\ (q.topic = 0 \/ q.topic \notin f.topics))
  /\ ~(f.company /= "" /\ f.company \notin q.companies)
  /\ ~(f.tags /= {} /\ ~(\A t \in f.tags : t \in q.tags))
  /\ ~(f.onlyUnsolved /\ q.is_solved)
  /\ ~(f.search /= <<>>
       /\ ~includes(toLowerCase(q.title \o <<" ">> \o q.task_text), toLowerCase(f.search)))

\* a filtered list with the unsolved questions first
filteredQuestions_unsolvedfirst ==
  SelectSeq(questions, LAMBDA q : matchesFilters(q, filters) /\ ~q.is_solved)
  \o SelectSeq(questions, LAMBDA q : matchesFilters(q, filters) /\ q.is_solved)

\* filteredQuestions (App.tsx 271-292)
filteredQuestions ==
  SelectSeq(questions, LAMBDA q : matchesFilters(q, filters))

\* ---- facets ---------------------------------------------------------------

\* Array.from(new Set(xs)): the distinct values in order of first occurrence
RECURSIVE distinct(_)
distinct(xs) ==
  IF xs = <<>> THEN <<>>
  ELSE LET front == distinct(SubSeq(xs, 1, Len(xs) - 1))
           x == xs[Len(xs)]
       IN IF \E k \in 1..Len(front) : front[k] = x THEN front ELSE Append(front, x)

\* Array.prototype.sort with the default comparison, on ranks
RECURSIVE sort(_)
sort(xs) ==
  IF xs = <<>> THEN <<>>
  ELSE LET k == CHOOSE i \in 1..Len(xs) : \A j \in 1..Len(xs) : xs[i] <= xs[j]
       IN <<xs[k]>> \o sort(Remove(xs, k))

\* the elements of an array of tags, which is kept as a set, in some order
RECURSIVE asArray(_)
asArray(S) ==
  IF S = {} THEN <<>>
  ELSE LET x == CHOOSE y \in S : TRUE IN <<x>> \o asArray(S \ {x})

\* qs.flatMap((q) => q.tags || [])
RECURSIVE flatTags(_)
flatTags(qs) ==
  IF qs = <<>> THEN <<>> ELSE asArray(qs[1].tags) \o flatTags(Tail(qs))

\* uniqueDifficulties, uniqueTopics, uniqueTags (App.tsx 229-254)
uniqueDifficulties ==
  distinct(SelectSeq([k \in 1..Len(questions) |-> questions[k].difficulty],
                     LAMBDA x : x /= ""))

\* a facet list computed from the list shown instead of the catalog
uniqueTopics_filtered ==
  sort(distinct(SelectSeq([k \in 1..Len(filteredQuestions) |-> filteredQuestions[k].topic],
                          LAMBDA x : x /= 0)))

uniqueTopics ==
  sort(distinct(SelectSeq([k \in 1..Len(questions) |-> questions[k].topic],
                          LAMBDA x : x /= 0)))

uniqueTags ==
  sort(distinct(SelectSeq(flatTags(questions), LAMBDA x : x /= 0)))

\* ---- filter controls -------------------------------------------------------

\* the search box and the "Поиск" chip (App.tsx 757-762, 1071-1079)
setSearch(str) ==
  /\ user
  /\ filters' = [filters EXCEPT !.search = str]
  /\ UNCHANGED <<authVars, catVars, detailVars, trainVars, view, resettingProgress,
                 envVars, tasks, histVars>>

\* a difficulty chip of the sidebar or of a listed question
\* (App.tsx 779-797, 1110-1126)
toggleDifficulty(d) ==
  /\ user
  /\ \E k \in 1..Len(uniqueDifficulties) : uniqueDifficulties[k] = d
  /\ filters' = [filters EXCEPT !.difficulty = IF filters.difficulty = d THEN "" ELSE d]
  /\ UNCHANGED <<authVars, catVars, detailVars, trainVars, view, resettingProgress,
                 envVars, tasks, histVars>>

\* the "Все" chip and the difficulty chip of the active filters
\* (App.tsx 768-778, 1010-1018)
clearDifficulty ==
  /\ user
  /\ filters' = [filters EXCEPT !.difficulty = ""]
  /\ UNCHANGED <<authVars, catVars, detailVars, trainVars, view, resettingProgress,
                 envVars, tasks, histVars>>

\* a topic of the picker, of the selected topics or of a listed question
\* (App.tsx 814-829, 836-862, 1127-1144)
toggleTopic(t) ==
  /\ user
  /\ t \in filters.topics \/ \E k \in 1..Len(uniqueTopics) : uniqueTopics[k] = t
  /\ filters' = [filters EXCEPT !.topics = IF t \in filters.topics
                                           THEN filters.topics \ {t}
                                           ELSE filters.topics \cup {t}]
  /\ UNCHANGED <<authVars, catVars, detailVars, trainVars, view, resettingProgress,
                 envVars, tasks, histVars>>

\* a company chip of a listed question (App.tsx 1145-1166)
toggleCompany(c) ==
  /\ user /\ view = "questions"
  /\ \E k \in 1..Len(filteredQuestions) : c \in filteredQuestions[k].companies
  /\ filters' = [filters EXCEPT !.company = IF filters.company = c THEN "" ELSE c]
  /\ UNCHANGED <<authVars, catVars, detailVars, trainVars, view, resettingProgress,
                 envVars, tasks, histVars>>

\* the company chip of the active filters (App.tsx 1034-1043)
clearCompany ==
  /\ user /\ view = "questions" /\ filters.company /= ""
  /\ filters' = [filters EXCEPT !.company = ""]
  /\ UNCHANGED <<authVars, catVars, detailVars, trainVars, view, resettingProgress,
                 envVars, tasks, histVars>>

\* a tag of the picker, of the selected tags or of a listed question
\* (App.tsx 880-895, 902-928, 1044-1056, 1167-1186)
toggleTag(t) ==
  /\ user
  /\ \/ t \in filters.tags
     \/ \E k \in 1..Len(uniqueTags) : uniqueTags[k] = t
     \/ view = "questions" /\ \E k \in 1..Len(filteredQuestions) : t \in filteredQuestions[k].tags
  /\ filters' = [filters EXCEPT !.tags = IF t \in filters.tags
                                         THEN filters.tags \ {t}
                                         ELSE filters.tags \cup {t}]
  /\ UNCHANGED <<authVars, catVars, detailVars, trainVars, view, resettingProgress,
                 envVars, tasks, histVars>>

\* "Сбросить фильтры" / "Сбросить все" (App.tsx 946-950, 1081-1086)
resetFilters ==
  /\ user
  /\ filters' = defaultFilters
  /\ UNCHANGED <<authVars, catVars, detailVars, trainVars, view, resettingProgress,
                 envVars, tasks, histVars>>

\* the "Только нерешённые" checkbox of the sidebar (App.tsx 931-942)
setOnlyUnsolved(b) ==
  /\ user
  /\ filters' = [filters EXCEPT !.onlyUnsolved = b]
  /\ UNCHANGED <<authVars, catVars, detailVars, trainVars, view, resettingProgress,
                 envVars, tasks, histVars>>

\* ---- continuations of the async handlers ---------------------------------

\* reloadQuestions after its await (App.tsx 206-219): qs is the fetched
\* catalog, t the task whose render the function belongs to
reloadSelected(t, qs) ==
  IF t.cSel /= 0 /\ find(qs, t.cSel).id /= 0 THEN find(qs, t.cSel) ELSE selectedQuestion

reloadTraining(t, qs) ==
  IF t.cTrain /= 0 /\ find(qs, t.cTrain).id /= 0 THEN find(qs, t.cTrain) ELSE trainingQuestion

\* a request is answered successfully only if it carried a credential
MayResume(i, pc) == i \in 1..Len(tasks) /\ tasks[i].pc = pc

MaySucceed(i, pc) == MayResume(i, pc) /\ tasks[i].tok

\* an updateProgress continuation that patches the marked question in the
\* local catalog before refetching
updateProgress_ok_patch(i) ==
  /\ MaySucceed(i, "updateProgress")
  /\ tasks[i].qid \in 1..srvN => srvAttempts[tasks[i].qid] < MaxAttempts
  /\ srvSolved' = ServerProgress(tasks[i].qid, tasks[i].solved)
  /\ srvAttempts' = ServerAttempts(tasks[i].qid)
  /\ questions' = [k \in 1..Len(questions) |->
                     IF questions[k].id = tasks[i].qid
                     THEN Question(questions[k].id,
                                   questions[k].is_solved \/ tasks[i].solved,
                                   questions[k].attempts + 1)
                     ELSE questions[k]]
  /\ tasks' = Replace(tasks, i, [tasks[i] EXCEPT !.pc = "fetchQuestions", !.tok = token])
  /\ UNCHANGED <<authVars, stats, detailVars, trainVars, view, miscVars,
                 now, srvN, limit, histVars>>

\* `await updateProgress(...)` resolves in handleMarkSolved or
\* handleTrainingMark: reloadQuestions() is called (App.tsx 426-427, 525-526)
updateProgress_ok(i) ==
  /\ MaySucceed(i, "updateProgress")
  /\ tasks[i].qid \in 1..srvN => srvAttempts[tasks[i].qid] < MaxAttempts
  /\ srvSolved' = ServerProgress(tasks[i].qid, tasks[i].solved)
  /\ srvAttempts' = ServerAttempts(tasks[i].qid)
  /\ tasks' = Replace(tasks, i, [tasks[i] EXCEPT !.pc = "fetchQuestions", !.tok = token])
  /\ UNCHANGED <<authVars, catVars, detailVars, trainVars, view, miscVars,
                 now, srvN, limit, histVars>>

\* a catch block of handleMarkSolved that drops the catalog and the open
\* question when the refresh failed
handleMarkSolved_catch_clear(i) ==
  /\ i \in 1..Len(tasks) /\ tasks[i].kind = "mark"
  /\ infoMessage' = ErrorMessage("save_error", tasks[i].pc)
  /\ questions' = IF tasks[i].pc = "fetchQuestions" THEN <<>> ELSE questions
  /\ selectedQuestion' = IF tasks[i].pc = "fetchQuestions" THEN NoQuestion ELSE selectedQuestion
  /\ tasks' = Remove(tasks, i)
  /\ UNCHANGED <<authVars, stats, startTime, showHint, showSolution,
                 showAnswer, trainVars, view, miscVars, envVars, histVars>>

\* the catch block of handleMarkSolved (App.tsx 439-441)
handleMarkSolved_catch(i) ==
  /\ i \in 1..Len(tasks) /\ tasks[i].kind = "mark"
  /\ infoMessage' = ErrorMessage("save_error", tasks[i].pc)
  /\ tasks' = Remove(tasks, i)
  /\ UNCHANGED <<authVars, catVars, selectedQuestion, startTime, showHint, showSolution,
                 showAnswer, trainVars, view, miscVars, envVars, histVars>>

\* a catch block of handleTrainingMark that also restarts the attempt clock
handleTrainingMark_catch_restart(i) ==
  /\ i \in 1..Len(tasks) /\ tasks[i].kind = "tmark"
  /\ trainingInfoMessage' = ErrorMessage("save_error", tasks[i].pc)
  /\ trainingStartTime' = now
  /\ tasks' = Remove(tasks, i)
  /\ UNCHANGED <<authVars, catVars, detailVars, trainingQuestion, trainingModeRunning,
                 trainingElapsedSec, trainingShowHint, trainingShowSolution,
                 trainingShowAnswer, view, miscVars, envVars, histVars>>
  /\ timerEffect

\* the catch block of handleTrainingMark (App.tsx 532-535)
handleTrainingMark_catch(i) ==
  /\ i \in 1..Len(tasks) /\ tasks[i].kind = "tmark"
  /\ trainingInfoMessage' = ErrorMessage("save_error", tasks[i].pc)
  /\ tasks' = Remove(tasks, i)
  /\ UNCHANGED <<authVars, catVars, detailVars, trainingQuestion, trainingModeRunning,
                 trainingStartTime, trainingElapsedSec, trainingShowHint, trainingShowSolution,
                 trainingShowAnswer, tickers, view, miscVars, envVars, histVars>>

\* `await fetchQuestions()` resolves inside reloadQuestions called from
\* handleMarkSolved, handleTrainingMark, init or handleAuthSubmit; the
\* caller goes on to reloadStats() (App.tsx 204-220, 191-192, 309-310, 427-428, 526-527)
reloadQuestions_ok(i) ==
  /\ MaySucceed(i, "fetchQuestions")
  /\ tasks[i].kind \in {"mark", "tmark", "init", "auth", "reset"}
  /\ questions' = ServerCatalog
  /\ selectedQuestion' = reloadSelected(tasks[i], ServerCatalog)
  /\ trainingQuestion' = reloadTraining(tasks[i], ServerCatalog)
  /\ tasks' = Replace(tasks, i, [tasks[i] EXCEPT !.pc = "fetchStats", !.tok = token])
  /\ UNCHANGED <<authVars, stats, startTime, showHint, showSolution, showAnswer, infoMessage,
                 trainingModeRunning, trainingStartTime, trainingElapsedSec, trainingShowHint,
                 trainingShowSolution, trainingShowAnswer, trainingInfoMessage, tickers, view,
                 miscVars, envVars, histVars>>

\* `await reloadStats()` resolves in handleMarkSolved (App.tsx 222-225, 428-438)
handleMarkSolved_done(i) ==
  /\ MaySucceed(i, "fetchStats") /\ tasks[i].kind = "mark"
  /\ stats' = ServerStats
  /\ infoMessage' = IF tasks[i].solved THEN Message("saved_solved") ELSE Message("saved_attempt")
  /\ startTime' = now
  /\ tasks' = Remove(tasks, i)
  /\ markedOk' = IF tasks[i].solved THEN markedOk \cup {<<"detail", tasks[i].qid>>} ELSE markedOk
  /\ UNCHANGED stopped
  /\ UNCHANGED <<authVars, questions, selectedQuestion, showHint, showSolution, showAnswer,
                 trainVars, view, miscVars, envVars>>
  /\ UNCHANGED <<declined, alerted>>

\* lines 537-553 of handleTrainingMark: the advance, on the catalog qs of the
\* handler's render
handleTrainingMark_advance(qs) ==
  \E next \in pickRandomTrainingQuestion(qs) :
    IF next.id = 0
    THEN /\ trainingModeRunning' = FALSE
         /\ trainingQuestion' = NoQuestion
         /\ trainingStartTime' = NoTime
         /\ trainingElapsedSec' = 0
         /\ trainingInfoMessage' = Message("all_solved")
         /\ UNCHANGED <<trainingShowHint, trainingShowSolution, trainingShowAnswer>>
         /\ timerEffect
    ELSE /\ trainingQuestion' = next
         /\ trainingStartTime' = now
         /\ trainingElapsedSec' = 0
         /\ trainingShowHint' = FALSE /\ trainingShowSolution' = FALSE
         /\ trainingShowAnswer' = FALSE
         /\ trainingInfoMessage' = Message("none")
         /\ UNCHANGED trainingModeRunning
         /\ timerEffect

\* `await reloadStats()` resolves in handleTrainingMark (App.tsx 527-553)
handleTrainingMark_done(i) ==
  /\ MaySucceed(i, "fetchStats") /\ tasks[i].kind = "tmark"
  /\ stats' = ServerStats
  /\ handleTrainingMark_advance(tasks[i].cQuestions)
  /\ tasks' = Remove(tasks, i)
  /\ markedOk' = IF tasks[i].solved THEN markedOk \cup {<<"training", tasks[i].qid>>} ELSE markedOk
  /\ UNCHANGED stopped
  /\ UNCHANGED <<authVars, questions, detailVars, view, miscVars, envVars>>
  /\ UNCHANGED <<declined, alerted>>

\* startTrainingSession treating an empty fetched catalog as a failed load
startTrainingSession_loaded_error(i) ==
  /\ MaySucceed(i, "fetchQuestions") /\ tasks[i].kind = "start"
  /\ questions' = ServerCatalog
  /\ selectedQuestion' = reloadSelected(tasks[i], ServerCatalog)
  /\ IF ServerCatalog = <<>>
     THEN /\ trainingInfoMessage' = Message("load_error")
          /\ UNCHANGED <<trainingQuestion, trainingModeRunning, trainingStartTime,
                         trainingElapsedSec, trainingShowHint, trainingShowSolution,
                         trainingShowAnswer, tickers>>
     ELSE startTrainingSession_pick(tasks[i].cQuestions, trainingInfoMessage)
  /\ tasks' = Remove(tasks, i)
  /\ UNCHANGED <<authVars, stats, startTime, showHint, showSolution, showAnswer, infoMessage,
                 view, miscVars, envVars, histVars>>

\* `await reloadQuestions()` resolves in startTrainingSession (App.tsx 461, 468-482)
startTrainingSession_loaded(i) ==
  /\ MaySucceed(i, "fetchQuestions") /\ tasks[i].kind = "start"
  /\ questions' = ServerCatalog
  /\ selectedQuestion' = reloadSelected(tasks[i], ServerCatalog)
  /\ startTrainingSession_pick(tasks[i].cQuestions, trainingInfoMessage)
  /\ tasks' = Remove(tasks, i)
  /\ UNCHANGED <<authVars, stats, startTime, showHint, showSolution, showAnswer, infoMessage,
                 view, miscVars, envVars, histVars>>

\* a catch block of startTrainingSession without its return: the handler goes
\* on to the pick
startTrainingSession_catch_proceed(i) ==
  /\ MayResume(i, "fetchQuestions") /\ tasks[i].kind = "start"
  /\ startTrainingSession_pick(tasks[i].cQuestions, Message("load_error"))
  /\ tasks' = Remove(tasks, i)
  /\ UNCHANGED <<authVars, catVars, detailVars, view, miscVars, envVars, histVars>>

\* the catch block of startTrainingSession (App.tsx 462-465)
startTrainingSession_catch(i) ==
  /\ MayResume(i, "fetchQuestions") /\ tasks[i].kind = "start"
  /\ trainingInfoMessage' = Message("load_error")
  /\ tasks' = Remove(tasks, i)
  /\ UNCHANGED <<authVars, catVars, detailVars, trainingQuestion, trainingModeRunning,
                 trainingStartTime, trainingElapsedSec, trainingShowHint, trainingShowSolution,
                 trainingShowAnswer, tickers, view, miscVars, envVars, histVars>>

\* `await getCurrentUser()` resolves in init or handleAuthSubmit (App.tsx 189-191, 307-309)
getCurrentUser_ok(i) ==
  /\ MaySucceed(i, "getCurrentUser")
  /\ user' = TRUE
  /\ tasks' = Replace(tasks, i, [tasks[i] EXCEPT !.pc = "fetchQuestions", !.tok = token])
  /\ UNCHANGED <<token, authError, loading, catVars, detailVars, trainVars, view,
                 miscVars, envVars, histVars>>

\* the catch block of init (App.tsx 193-195)
init_catch(i) ==
  /\ i \in 1..Len(tasks) /\ tasks[i].kind = "init"
  /\ token' = FALSE
  /\ tasks' = Remove(tasks, i)
  /\ UNCHANGED <<user, authError, loading, catVars, detailVars, trainVars, view,
                 miscVars, envVars, histVars>>

\* `await reloadStats()` resolves in init (App.tsx 192)
init_done(i) ==
  /\ MaySucceed(i, "fetchStats") /\ tasks[i].kind = "init"
  /\ stats' = ServerStats
  /\ tasks' = Remove(tasks, i)
  /\ UNCHANGED <<authVars, questions, detailVars, trainVars, view, miscVars,
                 envVars, histVars>>

\* `await register(...)` resolves: login(...) is called (App.tsx 301-303)
register_ok(i) ==
  /\ MayResume(i, "register") /\ tasks[i].kind = "auth"
  /\ tasks' = Replace(tasks, i, [tasks[i] EXCEPT !.pc = "login"])
  /\ UNCHANGED <<authVars, catVars, detailVars, trainVars, view, miscVars, envVars, histVars>>

\* `await login(...)` resolves: the token is stored and getCurrentUser() is
\* called (api.ts 146-147, App.tsx 305-307)
login_ok(i) ==
  /\ MayResume(i, "login") /\ tasks[i].kind = "auth"
  /\ token' = TRUE
  /\ tasks' = Replace(tasks, i, [tasks[i] EXCEPT !.pc = "getCurrentUser", !.tok = TRUE])
  /\ UNCHANGED <<user, authError, loading, catVars, detailVars, trainVars, view,
                 miscVars, envVars, histVars>>

\* the catch and finally blocks of handleAuthSubmit (App.tsx 311-315)
handleAuthSubmit_catch(i) ==
  /\ i \in 1..Len(tasks) /\ tasks[i].kind = "auth"
  /\ authError' = TRUE
  /\ loading' = FALSE
  /\ tasks' = Remove(tasks, i)
  /\ UNCHANGED <<user, token, catVars, detailVars, trainVars, view, miscVars,
                 envVars, histVars>>

\* `await reloadStats()` resolves in handleAuthSubmit, then finally (App.tsx 310, 313-315)
handleAuthSubmit_done(i) ==
  /\ MaySucceed(i, "fetchStats") /\ tasks[i].kind = "auth"
  /\ stats' = ServerStats
  /\ loading' = FALSE
  /\ tasks' = Remove(tasks, i)
  /\ UNCHANGED <<user, token, authError, questions, detailVars, trainVars, view,
                 miscVars, envVars, histVars>>

\* `await resetProgress()` resolves in handleResetProgress: the detail and
\* training questions are cleared and reloadQuestions() is called (App.tsx 334-338)
resetProgress_ok(i) ==
  /\ MaySucceed(i, "resetProgress") /\ tasks[i].kind = "reset"
  /\ srvSolved' = {}
  /\ srvAttempts' = ServerReset
  /\ selectedQuestion' = NoQuestion
  /\ trainingModeRunning' = FALSE
  /\ trainingQuestion' = NoQuestion
  /\ tasks' = Replace(tasks, i, [tasks[i] EXCEPT !.pc = "fetchQuestions", !.tok = token])
  /\ markedOk' = {}
  /\ UNCHANGED stopped
  /\ UNCHANGED <<authVars, catVars, startTime, showHint, showSolution, showAnswer, infoMessage,
                 trainingStartTime, trainingElapsedSec, trainingShowHint, trainingShowSolution,
                 trainingShowAnswer, trainingInfoMessage, view, miscVars, now, srvN, limit>>
  /\ timerEffect
  /\ UNCHANGED <<declined, alerted>>

\* a catch block of handleResetProgress that shows nothing
handleResetProgress_catch_silent(i) ==
  /\ i \in 1..Len(tasks) /\ tasks[i].kind = "reset"
  /\ resettingProgress' = FALSE
  /\ tasks' = Remove(tasks, i)
  /\ UNCHANGED <<authVars, catVars, detailVars, trainVars, view, filters, envVars, histVars>>

\* the catch and finally blocks of handleResetProgress: the alert, which
\* blocks until it is dismissed, then the flag (App.tsx 340-344)
handleResetProgress_catch(i) ==
  /\ i \in 1..Len(tasks) /\ tasks[i].kind = "reset"
  /\ alerted' = TRUE
  /\ resettingProgress' = FALSE
  /\ tasks' = Remove(tasks, i)
  /\ UNCHANGED <<authVars, catVars, detailVars, trainVars, view, filters, envVars,
                 markedOk, stopped, declined>>

\* `await reloadStats()` resolves in handleResetProgress, then finally
\* (App.tsx 339, 343-345)
handleResetProgress_done(i) ==
  /\ MaySucceed(i, "fetchStats") /\ tasks[i].kind = "reset"
  /\ stats' = ServerStats
  /\ resettingProgress' = FALSE
  /\ tasks' = Remove(tasks, i)
  /\ UNCHANGED <<authVars, questions, detailVars, trainVars, view, filters, envVars, histVars>>

\* ---- specification -------------------------------------------------------

Next ==
  \/ Tick
  \/ \E q \in {filteredQuestions[k] : k \in 1..Len(filteredQuestions)} : handleSelectQuestion(q)
  \/ \E w \in {"hint", "solution", "answer"} : toggleReveal(w)
  \/ \E s \in BOOLEAN : handleMarkSolved(s)
  \/ \E w \in {"hint", "solution", "answer"} : toggleTrainingReveal(w)
  \/ startTrainingSession
  \/ stopTrainingSession
  \/ \E s \in BOOLEAN : handleTrainingMark(s)
  \/ \E v \in {"questions", "stats"} : navigate(v)
  \/ handleLogout
  \/ \E m \in {"login", "register"} : handleAuthSubmit(m)
  \/ \E i \in 1..MaxTasks : register_ok(i)
  \/ \E i \in 1..MaxTasks : updateProgress_ok(i)
  \/ \E i \in 1..MaxTasks : handleMarkSolved_catch(i)
  \/ \E i \in 1..MaxTasks : handleTrainingMark_catch(i)
  \/ \E i \in 1..MaxTasks : reloadQuestions_ok(i)
  \/ \E i \in 1..MaxTasks : handleMarkSolved_done(i)
  \/ \E i \in 1..MaxTasks : handleTrainingMark_done(i)
  \/ \E i \in 1..MaxTasks : startTrainingSession_loaded(i)
  \/ \E i \in 1..MaxTasks : startTrainingSession_catch(i)
  \/ \E i \in 1..MaxTasks : getCurrentUser_ok(i)
  \/ \E i \in 1..MaxTasks : init_catch(i)
  \/ \E i \in 1..MaxTasks : init_done(i)
  \/ \E i \in 1..MaxTasks : login_ok(i)
  \/ \E i \in 1..MaxTasks : handleAuthSubmit_catch(i)
  \/ \E i \in 1..MaxTasks : handleAuthSubmit_done(i)
  \/ ClockBack
  \/ tickerFire
  \/ \E c \in BOOLEAN : handleResetProgress(c)
  \/ \E b \in BOOLEAN : setOnlyUnsolved(b)
  \/ \E i \in 1..MaxTasks : resetProgress_ok(i)
  \/ \E i \in 1..MaxTasks : handleResetProgress_catch(i)
  \/ \E i \in 1..MaxTasks : handleResetProgress_done(i)

Spec == Init /\ [][Next]_vars

\* the steps of init(), the mount effect
InitFlow ==
  \/ \E i \in 1..MaxTasks : getCurrentUser_ok(i)
  \/ \E i \in 1..MaxTasks : init_catch(i)
  \/ \E i \in 1..MaxTasks : init_done(i)
  \/ \E i \in 1..MaxTasks : reloadQuestions_ok(i)

\* the continuations of handleAuthSubmit
AuthFlow ==
  \/ \E i \in 1..MaxTasks : login_ok(i)
  \/ \E i \in 1..MaxTasks : handleAuthSubmit_catch(i)
  \/ \E i \in 1..MaxTasks : handleAuthSubmit_done(i)

\* training mode: login, sessions, marks and their continuations
NextTraining ==
  \/ InitFlow
  \/ \E m \in {"login"} : handleAuthSubmit(m)
  \/ AuthFlow
  \/ startTrainingSession
  \/ stopTrainingSession
  \/ \E s \in BOOLEAN : handleTrainingMark(s)
  \/ \E i \in 1..MaxTasks : updateProgress_ok(i)
  \/ \E i \in 1..MaxTasks : handleTrainingMark_catch(i)
  \/ \E i \in 1..MaxTasks : handleTrainingMark_done(i)
  \/ \E i \in 1..MaxTasks : startTrainingSession_loaded(i)
  \/ \E i \in 1..MaxTasks : startTrainingSession_catch(i)

SpecTraining == InitSeq /\ [][NextTraining]_vars

\* training mode across sessions: the user may also log out
NextRelogin ==
  \/ InitFlow
  \/ \E m \in {"login"} : handleAuthSubmit(m)
  \/ AuthFlow
  \/ handleLogout
  \/ startTrainingSession
  \/ stopTrainingSession
  \/ \E s \in BOOLEAN : handleTrainingMark(s)
  \/ \E i \in 1..MaxTasks : updateProgress_ok(i)
  \/ \E i \in 1..MaxTasks : handleTrainingMark_catch(i)
  \/ \E i \in 1..MaxTasks : handleTrainingMark_done(i)
  \/ \E i \in 1..MaxTasks : startTrainingSession_loaded(i)
  \/ \E i \in 1..MaxTasks : startTrainingSession_catch(i)

SpecRelogin == InitSeq /\ [][NextRelogin]_vars

\* marks in both views under a wall clock that may also be set back
NextClock ==
  \/ Tick
  \/ ClockBack
  \/ InitFlow
  \/ \E q \in {filteredQuestions[k] : k \in 1..Len(filteredQuestions)} : handleSelectQuestion(q)
  \/ \E s \in BOOLEAN : handleMarkSolved(s)
  \/ \E i \in 1..MaxTasks : updateProgress_ok(i)
  \/ \E i \in 1..MaxTasks : handleMarkSolved_catch(i)
  \/ \E i \in 1..MaxTasks : handleMarkSolved_done(i)
  \/ selectedQuestion.id = 0 /\ startTrainingSession
  \/ \E i \in 1..MaxTasks : startTrainingSession_loaded(i)
  \/ \E i \in 1..MaxTasks : startTrainingSession_catch(i)
  \/ \E s \in BOOLEAN : handleTrainingMark(s)
  \/ \E i \in 1..MaxTasks : handleTrainingMark_catch(i)
  \/ \E i \in 1..MaxTasks : handleTrainingMark_done(i)

SpecClock == InitSeq /\ [][NextClock]_vars

\* the continuations of handleResetProgress
ResetFlow ==
  \/ \E i \in 1..MaxTasks : resetProgress_ok(i)
  \/ \E i \in 1..MaxTasks : handleResetProgress_catch(i)
  \/ \E i \in 1..MaxTasks : handleResetProgress_done(i)

\* the life of the training timer: sessions, marks, leaving the training
\* view, logout and progress reset, under an advancing clock
NextTicker ==
  \/ Tick
  \/ tickerFire
  \/ InitFlow
  \/ handleLogout
  \/ \E v \in {"questions", "stats"} : navigate(v)
  \/ \E c \in {TRUE} : handleResetProgress(c)
  \/ ResetFlow
  \/ startTrainingSession
  \/ stopTrainingSession
  \/ \E s \in BOOLEAN : handleTrainingMark(s)
  \/ \E i \in 1..MaxTasks : updateProgress_ok(i)
  \/ \E i \in 1..MaxTasks : handleTrainingMark_catch(i)
  \/ \E i \in 1..MaxTasks : handleTrainingMark_done(i)
  \/ \E i \in 1..MaxTasks : startTrainingSession_loaded(i)
  \/ \E i \in 1..MaxTasks : startTrainingSession_catch(i)

SpecTicker == InitSeq /\ [][NextTicker]_vars

\* starting and stopping sessions with a question open in the detail view,
\* a filter set, reveals toggled and the timer running
NextStop ==
  \/ Tick
  \/ tickerFire
  \/ InitFlow
  \/ \E b \in BOOLEAN : setOnlyUnsolved(b)
  \/ \E q \in {filteredQuestions[k] : k \in 1..Len(filteredQuestions)} : handleSelectQuestion(q)
  \/ startTrainingSession
  \/ \E i \in 1..MaxTasks : startTrainingSession_loaded(i)
  \/ \E i \in 1..MaxTasks : startTrainingSession_catch(i)
  \/ stopTrainingSession
  \/ \E w \in {"hint", "solution", "answer"} : toggleTrainingReveal(w)
  \/ \E s \in {TRUE} : handleTrainingMark(s)
  \/ \E i \in 1..MaxTasks : updateProgress_ok(i)
  \/ \E i \in 1..MaxTasks : handleTrainingMark_catch(i)
  \/ \E i \in 1..MaxTasks : handleTrainingMark_done(i)

SpecStop == InitSeq /\ [][NextStop]_vars

\* the handlers that refresh the catalog and the stats, with their failure
\* continuations: mount, marks in both views, start of a session and
\* progress reset
NextFailure ==
  \/ InitFlow
  \/ \E v \in {"questions", "stats"} : navigate(v)
  \/ \E q \in {filteredQuestions[k] : k \in 1..Len(filteredQuestions)} : handleSelectQuestion(q)
  \/ \E s \in {FALSE} : handleMarkSolved(s)
  \/ \E i \in 1..MaxTasks : handleMarkSolved_catch(i)
  \/ \E i \in 1..MaxTasks : handleMarkSolved_done(i)
  \/ \E c \in {TRUE} : handleResetProgress(c)
  \/ ResetFlow
  \/ startTrainingSession
  \/ \E i \in 1..MaxTasks : startTrainingSession_loaded(i)
  \/ \E i \in 1..MaxTasks : startTrainingSession_catch(i)
  \/ \E s \in {FALSE} : handleTrainingMark(s)
  \/ \E i \in 1..MaxTasks : updateProgress_ok(i)
  \/ \E i \in 1..MaxTasks : handleTrainingMark_catch(i)
  \/ \E i \in 1..MaxTasks : handleTrainingMark_done(i)

SpecFailure == InitSeq /\ [][NextFailure]_vars

\* the reset button with both answers to its prompt, after marks in the
\* detail view
NextReset ==
  \/ InitFlow
  \/ \E v \in {"questions", "stats"} : navigate(v)
  \/ \E q \in {filteredQuestions[k] : k \in 1..Len(filteredQuestions)} : handleSelectQuestion(q)
  \/ \E s \in BOOLEAN : handleMarkSolved(s)
  \/ \E i \in 1..MaxTasks : updateProgress_ok(i)
  \/ \E i \in 1..MaxTasks : handleMarkSolved_catch(i)
  \/ \E i \in 1..MaxTasks : handleMarkSolved_done(i)
  \/ \E c \in BOOLEAN : handleResetProgress(c)
  \/ ResetFlow

SpecReset == InitSeq /\ [][NextReset]_vars

\* the operations that write to the backend, each with its failure: login and
\* register, marks in both views, progress reset
NextMutations ==
  \/ InitFlow
  \/ \E m \in {"login", "register"} : handleAuthSubmit(m)
  \/ \E i \in 1..MaxTasks : register_ok(i)
  \/ AuthFlow
  \/ \E v \in {"questions", "stats"} : navigate(v)
  \/ \E q \in {filteredQuestions[k] : k \in 1..Len(filteredQuestions)} : handleSelectQuestion(q)
  \/ \E s \in BOOLEAN : handleMarkSolved(s)
  \/ \E i \in 1..MaxTasks : handleMarkSolved_catch(i)
  \/ \E i \in 1..MaxTasks : handleMarkSolved_done(i)
  \/ \E c \in {TRUE} : handleResetProgress(c)
  \/ ResetFlow
  \/ startTrainingSession
  \/ \E i \in 1..MaxTasks : startTrainingSession_loaded(i)
  \/ \E i \in 1..MaxTasks : startTrainingSession_catch(i)
  \/ \E s \in BOOLEAN : handleTrainingMark(s)
  \/ \E i \in 1..MaxTasks : updateProgress_ok(i)
  \/ \E i \in 1..MaxTasks : handleTrainingMark_catch(i)
  \/ \E i \in 1..MaxTasks : handleTrainingMark_done(i)

SpecMutations == InitSingle /\ [][NextMutations]_vars

\* ---- the filter engine on catalogs with attributes --------------------------

\* a question as the backend serves it, with the attributes the filter reads
Attributed(i, d, t, cs, tg, ttl, txt, s) ==
  [id |-> i, is_solved |-> s, attempts |-> IF s THEN 1 ELSE 0,
   difficulty |-> d, topic |-> t, companies |-> cs, tags |-> tg,
   title |-> ttl, task_text |-> txt]

FilterDifficulties == {"easy", "hard"}
FilterCompanies == {"acme"}
Titles == {<<>>, <<"A">>}
Texts == {<<>>, <<"a">>}
Searches == {<<>>, <<" ">>, <<"A">>, <<"a", " ", "a">>}

\* every question over these attribute values
AllQuestions(i) ==
  {Attributed(i, d, t, cs, tg, ttl, txt, s) :
     d \in {""} \cup FilterDifficulties, t \in 0..MaxTopic, cs \in SUBSET FilterCompanies,
     tg \in SUBSET (1..MaxTag), ttl \in Titles, txt \in Texts, s \in BOOLEAN}

\* a few of them, and one with an empty tag, for the longer catalogs
SomeQuestions(i) ==
  { Attributed(i, "easy", 1, {"acme"}, {1}, <<"A">>, <<>>, FALSE),
    Attributed(i, "hard", MaxTopic, {}, 1..MaxTag, <<>>, <<"a">>, TRUE),
    Attributed(i, "", 0, {}, {}, <<>>, <<>>, FALSE),
    Attributed(i, "easy", MaxTopic, {"acme"}, {0, MaxTag}, <<"A">>, <<"a">>, TRUE),
    Attributed(i, "hard", 1, {}, {MaxTag}, <<"A">>, <<"a">>, FALSE) }

Catalogs ==
  {<<>>} \cup {<<q>> : q \in AllQuestions(1)}
  \cup UNION {{qs \in [1..n -> UNION {SomeQuestions(i) : i \in 1..n}] :
                 \A k \in 1..n : qs[k].id = k} : n \in 2..MaxCatalog}

Criteria ==
  [difficulty : {""} \cup FilterDifficulties, company : {""} \cup FilterCompanies,
   topics : SUBSET (1..MaxTopic), tags : SUBSET (1..MaxTag), search : Searches,
   onlyUnsolved : BOOLEAN]

\* the user is logged in with a catalog loaded and some criteria set; the
\* stats fetch of the mount effect has failed (App.tsx 189-195)
InitFilter ==
  /\ user = TRUE /\ questions \in Catalogs /\ stats = NoStats
  /\ filters \in Criteria
  /\ selectedQuestion = NoQuestion /\ view = "questions"
  /\ authError = FALSE /\ loading = FALSE
  /\ startTime = NoTime /\ showHint = FALSE /\ showSolution = FALSE /\ showAnswer = FALSE
  /\ infoMessage = Message("none")
  /\ trainingQuestion = NoQuestion /\ trainingModeRunning = FALSE
  /\ trainingStartTime = NoTime /\ trainingElapsedSec = 0
  /\ trainingShowHint = FALSE /\ trainingShowSolution = FALSE /\ trainingShowAnswer = FALSE
  /\ trainingInfoMessage = Message("none")
  /\ resettingProgress = FALSE
  /\ tickers = <<>>
  /\ token = FALSE
  /\ now = TickMs
  /\ srvN = Len(questions)
  /\ srvSolved = {k \in 1..Len(questions) : questions[k].is_solved}
  /\ srvAttempts = [k \in 1..Len(questions) |-> questions[k].attempts]
  /\ limit = MaxSeqTasks
  /\ tasks = <<>>
  /\ markedOk = {}
  /\ stopped = FALSE
  /\ declined = FALSE
  /\ alerted = FALSE

\* the filter controls
NextFilter ==
  \/ \E str \in Searches : setSearch(str)
  \/ \E d \in FilterDifficulties : toggleDifficulty(d)
  \/ clearDifficulty
  \/ \E t \in 1..MaxTopic : toggleTopic(t)
  \/ \E c \in FilterCompanies : toggleCompany(c)
  \/ clearCompany
  \/ \E t \in 0..MaxTag : toggleTag(t)
  \/ \E b \in BOOLEAN : setOnlyUnsolved(b)
  \/ resetFilters

SpecFilter == InitFilter /\ [][NextFilter]_vars

\* the same on the catalogs of two questions and more
InitFilterLong == InitFilter /\ Len(questions) >= 2

SpecFilterLong == InitFilterLong /\ [][NextFilter]_vars

\* training mode with the reveal buttons
NextReveal ==
  \/ InitFlow
  \/ \E m \in {"login"} : handleAuthSubmit(m)
  \/ AuthFlow
  \/ startTrainingSession
  \/ stopTrainingSession
  \/ \E s \in BOOLEAN : handleTrainingMark(s)
  \/ \E i \in 1..MaxTasks : updateProgress_ok(i)
  \/ \E i \in 1..MaxTasks : handleTrainingMark_catch(i)
  \/ \E i \in 1..MaxTasks : handleTrainingMark_done(i)
  \/ \E i \in 1..MaxTasks : startTrainingSession_loaded(i)
  \/ \E i \in 1..MaxTasks : startTrainingSession_catch(i)
  \/ \E w \in {"hint", "solution", "answer"} : toggleTrainingReveal(w)

SpecReveal == InitSeq /\ [][NextReveal]_vars

\* login, logout and the detail view
NextSession ==
  \/ InitFlow
  \/ \E m \in {"login"} : handleAuthSubmit(m)
  \/ AuthFlow
  \/ handleLogout
  \/ \E q \in {filteredQuestions[k] : k \in 1..Len(filteredQuestions)} : handleSelectQuestion(q)
  \/ \E s \in BOOLEAN : handleMarkSolved(s)
  \/ \E i \in 1..MaxTasks : updateProgress_ok(i)
  \/ \E i \in 1..MaxTasks : handleMarkSolved_catch(i)
  \/ \E i \in 1..MaxTasks : handleMarkSolved_done(i)

SpecSession == InitSeq /\ [][NextSession]_vars

\* marks in both views, with the clock and the reveal buttons; the user
\* works in one view: training is entered with no question open in the
\* detail view
NextMarks ==
  \/ Tick
  \/ InitFlow
  \/ \E q \in {filteredQuestions[k] : k \in 1..Len(filteredQuestions)} : handleSelectQuestion(q)
  \/ \E w \in {"hint", "solution", "answer"} : toggleReveal(w)
  \/ \E s \in BOOLEAN : handleMarkSolved(s)
  \/ \E i \in 1..MaxTasks : updateProgress_ok(i)
  \/ \E i \in 1..MaxTasks : handleMarkSolved_catch(i)
  \/ \E i \in 1..MaxTasks : handleMarkSolved_done(i)
  \/ selectedQuestion.id = 0 /\ startTrainingSession
  \/ \E i \in 1..MaxTasks : startTrainingSession_loaded(i)
  \/ \E i \in 1..MaxTasks : startTrainingSession_catch(i)
  \/ stopTrainingSession
  \/ \E w \in {"hint", "solution", "answer"} : toggleTrainingReveal(w)
  \/ \E s \in BOOLEAN : handleTrainingMark(s)
  \/ \E i \in 1..MaxTasks : handleTrainingMark_catch(i)
  \/ \E i \in 1..MaxTasks : handleTrainingMark_done(i)

SpecMarks == InitSeq /\ [][NextMarks]_vars

\* marks in both views by a user who does not wait for a handler to finish:
\* two handlers may be in flight
NextOverlap ==
  \/ InitFlow
  \/ \E q \in {filteredQuestions[k] : k \in 1..Len(filteredQuestions)} : handleSelectQuestion(q)
  \/ \E s \in BOOLEAN : handleMarkSolved(s)
  \/ \E i \in 1..MaxTasks : updateProgress_ok(i)
  \/ \E i \in 1..MaxTasks : handleMarkSolved_catch(i)
  \/ \E i \in 1..MaxTasks : handleMarkSolved_done(i)
  \/ selectedQuestion.id = 0 /\ startTrainingSession
  \/ \E i \in 1..MaxTasks : startTrainingSession_loaded(i)
  \/ \E i \in 1..MaxTasks : startTrainingSession_catch(i)
  \/ \E s \in BOOLEAN : handleTrainingMark(s)
  \/ \E i \in 1..MaxTasks : handleTrainingMark_catch(i)
  \/ \E i \in 1..MaxTasks : handleTrainingMark_done(i)

SpecOverlap == Init /\ [][NextOverlap]_vars

\* logging out of a session in use: a question open in the detail view, a
\* filter set, a training session started
NextLogout ==
  \/ InitFlow
  \/ \E m \in {"login"} : handleAuthSubmit(m)
  \/ AuthFlow
  \/ \E b \in BOOLEAN : setOnlyUnsolved(b)
  \/ \E q \in {filteredQuestions[k] : k \in 1..Len(filteredQuestions)} : handleSelectQuestion(q)
  \/ \E v \in {"questions", "stats"} : navigate(v)
  \/ startTrainingSession
  \/ \E i \in 1..MaxTasks : startTrainingSession_loaded(i)
  \/ \E i \in 1..MaxTasks : startTrainingSession_catch(i)
  \/ handleLogout

SpecLogout == InitSeq /\ [][NextLogout]_vars

\* ---- properties ----------------------------------------------------------

Range(qs) == {qs[k] : k \in 1..Len(qs)}

trainingFlags == <<trainingShowHint, trainingShowSolution, trainingShowAnswer>>

detailFlags == <<showHint, showSolution, showAnswer>>

\* C1: once a mark-solved of a view has completed with its submission and
\* refresh successful, a further mark-solved invoked while a question with
\* the same id is current in that view dispatches no submission and only
\* sets the 'already solved' message.
C1_SecondMarkSolvedSubmitsNothing ==
  [][ /\ ( /\ handleTrainingMark(TRUE)
           /\ trainingQuestion.id /= 0
           /\ <<"training", trainingQuestion.id>> \in markedOk )
         => ( /\ tasks' = tasks
              /\ trainingInfoMessage' = Message("already_solved") )
      /\ ( /\ handleMarkSolved(TRUE)
           /\ selectedQuestion.id /= 0
           /\ <<"detail", selectedQuestion.id>> \in markedOk )
         => ( /\ tasks' = tasks
              /\ infoMessage' = Message("already_solved") )
    ]_vars

\* C2: mark-solved on a current question whose is_solved flag is true
\* dispatches no remote call and changes nothing but the view's message,
\* which becomes 'already solved' (training mode and detail view).
C2_AlreadySolvedIsNoop ==
  [][ /\ ( /\ handleTrainingMark(TRUE)
           /\ trainingQuestion.id /= 0 /\ trainingQuestion.is_solved )
         => ( /\ tasks' = tasks
              /\ trainingInfoMessage' = Message("already_solved")
              /\ UNCHANGED <<trainingQuestion, trainingStartTime, trainingFlags,
                             trainingModeRunning, trainingElapsedSec>>
              /\ UNCHANGED <<authVars, catVars, detailVars, view, miscVars, envVars>> )
      /\ ( /\ handleMarkSolved(TRUE)
           /\ selectedQuestion.id /= 0 /\ selectedQuestion.is_solved )
         => ( /\ tasks' = tasks
              /\ infoMessage' = Message("already_solved")
              /\ UNCHANGED <<selectedQuestion, startTime, detailFlags>>
              /\ UNCHANGED <<authVars, catVars, trainVars, view, miscVars, envVars>> )
    ]_vars

\* C2 witness: the no-op has run in a training session with a solved current
\* question, a started clock that has since advanced and a revealed hint
C2_Witness ==
  /\ trainingInfoMessage = Message("already_solved")
  /\ trainingQuestion.id /= 0 /\ trainingQuestion.is_solved
  /\ trainingModeRunning /\ trainingStartTime /= NoTime /\ now > trainingStartTime
  /\ trainingShowHint
  /\ tasks = <<>>

\* C3: when a training mark completes with submission and refresh successful
\* and the catalog held after the refresh has an unsolved question, the new
\* current question is a question of that catalog and is unsolved in it.
C3_AdvancePicksFromRefreshedCatalog ==
  [][ \A i \in 1..MaxTasks :
        ( /\ handleTrainingMark_done(i)
          /\ \E q \in Range(questions') : ~q.is_solved )
        => ( /\ trainingQuestion' \in Range(questions')
             /\ ~trainingQuestion'.is_solved )
    ]_vars

\* C4: when the catalog refresh triggered by Start on an empty local catalog
\* succeeds with at least one question, Start ends in Running: running is
\* true, the current question is one of the fetched catalog, a start
\* timestamp is recorded and the three reveal flags are hidden.
C4_StartAfterRefreshRuns ==
  [][ \A i \in 1..MaxTasks :
        ( /\ startTrainingSession_loaded(i)
          /\ Len(tasks[i].cQuestions) = 0
          /\ Len(questions') > 0 )
        => ( /\ trainingModeRunning'
             /\ trainingQuestion' \in Range(questions')
             /\ trainingStartTime' /= NoTime
             /\ ~trainingShowHint' /\ ~trainingShowSolution' /\ ~trainingShowAnswer' )
    ]_vars

\* C5: the step in which a rejected submitProgress is handled changes nothing
\* but the message of its view, which becomes the save error (training: same
\* current question, start timestamp and reveal flags; detail view: same open
\* question and attempt clock), dispatches no refresh and ends the handler,
\* so that the mark can be invoked again.
C5_FailedSubmissionStaysOnQuestion ==
  [][ \A i \in 1..MaxTasks :
        /\ ( handleTrainingMark_catch(i) /\ tasks[i].pc = "updateProgress" )
           => ( /\ trainingInfoMessage' = ErrorMessage("save_error", "updateProgress")
                /\ tasks' = Remove(tasks, i)
                /\ UNCHANGED <<trainingQuestion, trainingStartTime, trainingFlags,
                               trainingModeRunning, trainingElapsedSec>>
                /\ UNCHANGED <<catVars, detailVars, view, srvSolved>> )
        /\ ( handleMarkSolved_catch(i) /\ tasks[i].pc = "updateProgress" )
           => ( /\ infoMessage' = ErrorMessage("save_error", "updateProgress")
                /\ tasks' = Remove(tasks, i)
                /\ UNCHANGED <<selectedQuestion, startTime, detailFlags>>
                /\ UNCHANGED <<catVars, trainVars, view, srvSolved>> )
    ]_vars

\* C5 witness: a training submission has just been rejected while a question
\* was current with a revealed hint and a clock started before now
C5_Witness ==
  /\ trainingInfoMessage = ErrorMessage("save_error", "updateProgress")
  /\ trainingQuestion.id /= 0 /\ trainingModeRunning
  /\ trainingStartTime /= NoTime /\ now > trainingStartTime
  /\ trainingShowHint
  /\ tasks = <<>>

\* C6: when a training mark ends because the catalog or stats refresh that
\* follows its successful submission failed, no progress-save failure is
\* reported and the machine has advanced (new start timestamp or Exhausted).
C6_RefreshFailureStillAdvances ==
  [][ \A i \in 1..MaxTasks :
        ( /\ i \in 1..Len(tasks) /\ tasks[i].kind = "tmark"
          /\ tasks[i].pc \in {"fetchQuestions", "fetchStats"}
          /\ tasks' = Remove(tasks, i)
          /\ ~handleTrainingMark_done(i) )
        => ( /\ trainingInfoMessage'.what /= "save_error"
             /\ \/ ~trainingModeRunning'
                \/ trainingInfoMessage' = Message("none") )
    ]_vars

\* C7: a mark that is not the already-solved no-op dispatches one
\* updateProgress with the id of the current question, the computed elapsed
\* seconds and the solved flag; with no current question it dispatches
\* nothing; the success of the submission is followed by fetchQuestions, its
\* success by fetchStats, and a mark whose submission succeeded does not end
\* before both have been dispatched.
C7_SubmitThenCatalogThenStats ==
  [][ /\ \A s \in BOOLEAN :
           /\ ( handleTrainingMark(s) /\ trainingQuestion.id = 0 ) => tasks' = tasks
           /\ ( handleTrainingMark(s) /\ trainingQuestion.id /= 0
                /\ ~(s /\ trainingQuestion.is_solved) )
              => ( /\ Len(tasks') = Len(tasks) + 1
                   /\ tasks'[Len(tasks')].pc = "updateProgress"
                   /\ tasks'[Len(tasks')].qid = trainingQuestion.id
                   /\ tasks'[Len(tasks')].delta = deltaSec(now, trainingStartTime)
                   /\ tasks'[Len(tasks')].solved = s )
           /\ ( handleMarkSolved(s) /\ selectedQuestion.id = 0 ) => tasks' = tasks
           /\ ( handleMarkSolved(s) /\ selectedQuestion.id /= 0
                /\ ~(s /\ selectedQuestion.is_solved) )
              => ( /\ Len(tasks') = Len(tasks) + 1
                   /\ tasks'[Len(tasks')].pc = "updateProgress"
                   /\ tasks'[Len(tasks')].qid = selectedQuestion.id
                   /\ tasks'[Len(tasks')].delta = deltaSec(now, startTime)
                   /\ tasks'[Len(tasks')].solved = s )
      /\ \A i \in 1..MaxTasks :
           /\ ( updateProgress_ok(i) ) => tasks'[i].pc = "fetchQuestions"
           /\ ( reloadQuestions_ok(i) /\ tasks[i].kind \in {"mark", "tmark"} )
              => tasks'[i].pc = "fetchStats"
           /\ ( handleTrainingMark_done(i) ) => tasks[i].pc = "fetchStats"
           /\ ( /\ i \in 1..Len(tasks) /\ tasks[i].kind \in {"mark", "tmark"}
                /\ tasks[i].pc /= "updateProgress"
                /\ tasks' = Remove(tasks, i) )
              => tasks[i].pc = "fetchStats"
    ]_vars

\* the training session is cleared
TrainingCleared ==
  /\ trainingQuestion.id = 0
  /\ trainingStartTime = NoTime
  /\ ~trainingModeRunning
  /\ ~trainingShowHint /\ ~trainingShowSolution /\ ~trainingShowAnswer

\* C8: from Stop until the next Start is invoked the training session is
\* cleared: no current question, no start timestamp, not running, reveal
\* flags hidden.
C8_StoppedStaysCleared == stopped => TrainingCleared

\* C9: while no user is logged in (in particular after a logout and before
\* the next login has produced a user) the catalog is empty, the stats are
\* absent and neither a detail nor a training question is set.
C9_LoggedOutStaysEmpty ==
  ~user => ( /\ questions = <<>>
             /\ stats = NoStats
             /\ selectedQuestion.id = 0
             /\ trainingQuestion.id = 0 )

\* C10: every step that makes another question the current training
\* question leaves the three training reveal flags hidden.
C10_QuestionChangeHidesFlags ==
  [][ ( trainingQuestion'.id /= trainingQuestion.id /\ trainingQuestion'.id /= 0 )
      => ( ~trainingShowHint' /\ ~trainingShowSolution' /\ ~trainingShowAnswer' )
    ]_vars

\* the question q, when present and listed in the catalog, carries the
\* is_solved and attempts values of its catalog entry
FreshAsCatalog(q) ==
  (q.id /= 0 /\ find(questions, q.id).id /= 0)
  => ( /\ q.is_solved = find(questions, q.id).is_solved
       /\ q.attempts = find(questions, q.id).attempts )

\* C11: whenever no submission or refresh is in flight, the open detail
\* question and the current training question carry the same is_solved and
\* attempts values as the catalog entry with their id.
C11_CurrentQuestionsFreshAsCatalog ==
  tasks = <<>> => ( FreshAsCatalog(selectedQuestion) /\ FreshAsCatalog(trainingQuestion) )

\* r is a result the selection policy may give on the catalog qs
PickedRight(qs, r) ==
  LET unsolved == {q \in Range(qs) : ~q.is_solved}
  IN /\ unsolved /= {} => (r \in unsolved)
     /\ (qs /= <<>> /\ unsolved = {}) => (r \in Range(qs))
     /\ Cardinality(unsolved) = 1 => (\A q \in unsolved : r = q)
     /\ (unsolved = {} /\ Len(qs) = 1) => r = qs[1]
     /\ r.id = 0 <=> qs = <<>>

\* C12: the selection policy returns a member of the candidate pool: an
\* unsolved question when the catalog has one, a question of the full catalog
\* when the catalog is non-empty and all solved, the single element of a
\* one-element pool, and nothing only when the catalog is empty.
C12_PickIsPoolMember ==
  \A r \in pickRandomTrainingQuestion(questions) : PickedRight(questions, r)

\* C12 witness: a session was started on a catalog in which every question
\* is solved, and runs on a question of that catalog
C12_Witness ==
  /\ questions /= <<>> /\ \A q \in Range(questions) : q.is_solved
  /\ trainingModeRunning /\ trainingQuestion \in Range(questions)
  /\ tasks = <<>>

\* the training machine is in Exhausted
Exhausted ==
  /\ ~trainingModeRunning /\ trainingQuestion.id = 0
  /\ trainingStartTime = NoTime /\ trainingElapsedSec = 0

\* C13: an advance ends in Exhausted (not running, no current question, no
\* start timestamp, elapsed counter 0) only when the catalog held after the
\* refresh is empty; when that catalog is non-empty the advance yields a
\* current question.
C13_ExhaustedOnlyOnEmptyCatalog ==
  [][ \A i \in 1..MaxTasks :
        handleTrainingMark_done(i)
        => ( /\ (trainingQuestion'.id = 0 \/ Exhausted') => questions' = <<>>
             /\ questions' /= <<>> => trainingQuestion'.id /= 0 )
    ]_vars

\* C14: when the catalog refresh of a Start on an empty local catalog fails,
\* the load-error message is set and nothing else changes: no question is
\* selected, running is not set, no ticker starts, the catalog is unchanged;
\* a machine that was idle is left idle.
C14_FailedStartOnlyReportsError ==
  [][ \A i \in 1..MaxTasks :
        ( startTrainingSession_catch(i) /\ tasks[i].cQuestions = <<>> )
        => ( /\ trainingInfoMessage' = Message("load_error")
             /\ tasks' = Remove(tasks, i)
             /\ UNCHANGED <<trainingQuestion, trainingModeRunning, trainingStartTime,
                            trainingElapsedSec, trainingFlags, tickers, catVars>>
             /\ ~trainingModeRunning => (~trainingModeRunning' /\ tickers' = <<>>) )
    ]_vars

\* C14 witness: a Start on an empty catalog has failed to load it
C14_Witness ==
  /\ user /\ view = "training" /\ questions = <<>>
  /\ trainingInfoMessage = Message("load_error")
  /\ ~trainingModeRunning /\ trainingQuestion.id = 0 /\ tickers = <<>>
  /\ tasks = <<>>

\* C15: a Start on an empty local catalog whose refresh succeeds with an
\* empty result ends not running, with no current question and the 'no
\* questions' message, not the load error.
C15_EmptyCatalogIsNoQuestions ==
  [][ \A i \in 1..MaxTasks :
        ( /\ startTrainingSession_loaded(i)
          /\ tasks[i].cQuestions = <<>> /\ questions' = <<>> )
        => ( /\ ~trainingModeRunning'
             /\ trainingQuestion'.id = 0
             /\ trainingInfoMessage' = Message("no_questions")
             /\ tasks' = Remove(tasks, i) )
    ]_vars

\* C15 witness: a Start has fetched the empty catalog of the backend
C15_Witness ==
  /\ user /\ view = "training" /\ srvN = 0 /\ questions = <<>>
  /\ trainingInfoMessage = Message("no_questions")
  /\ ~trainingModeRunning /\ trainingQuestion.id = 0
  /\ tasks = <<>>

\* C16: the elapsed seconds carried by every updateProgress call, from the
\* detail view or from training mode, is at least 1, whatever the difference
\* between the time of the mark and the start timestamp (zero and negative
\* differences included).
C16_ElapsedAtLeastOne ==
  \A i \in 1..Len(tasks) :
    tasks[i].kind \in {"mark", "tmark"} => tasks[i].delta >= 1

\* C16 witness: a training mark is being submitted whose start timestamp lies
\* after the time of the mark
C16_Witness ==
  \E i \in 1..Len(tasks) :
    /\ tasks[i].kind = "tmark" /\ tasks[i].pc = "updateProgress"
    /\ trainingStartTime /= NoTime /\ now < trainingStartTime
    /\ tasks[i].delta = 1

\* a detail-view mark is being submitted whose attempt clock was started at
\* the very time of the mark
C16_WitnessZero ==
  \E i \in 1..Len(tasks) :
    /\ tasks[i].kind = "mark" /\ tasks[i].pc = "updateProgress"
    /\ startTime = now /\ tasks[i].delta = 1

\* C17: at most one interval of the training timer is active; one is active
\* only while the session is running with a start timestamp, and it is the
\* interval created for the current start timestamp (the one of a replaced
\* timestamp, or of a session no longer running, has been cleared).
C17_AtMostOneTicker ==
  /\ Len(tickers) <= 1
  /\ tickers /= <<>> => ( /\ trainingModeRunning /\ trainingStartTime /= NoTime
                          /\ tickers = <<trainingStartTime>> )
  /\ ~trainingModeRunning => tickers = <<>>

\* C17 witness: after a mark has completed, the session runs on a start
\* timestamp taken after the clock moved, with the one interval created for
\* that timestamp
C17_Witness ==
  /\ tickers = <<trainingStartTime>> /\ trainingStartTime > TickMs
  /\ trainingModeRunning /\ markedOk /= {}

\* the session fields as Stop leaves them
StoppedTraining ==
  /\ ~trainingModeRunning /\ trainingQuestion = NoQuestion
  /\ trainingStartTime = NoTime /\ trainingElapsedSec = 0
  /\ ~trainingShowHint /\ ~trainingShowSolution /\ ~trainingShowAnswer
  /\ trainingInfoMessage = Message("none")

\* C18: every Stop ends not running, with no current question, no start
\* timestamp, elapsed counter 0, the three reveal flags hidden and no message,
\* whatever the state it was invoked in, and changes nothing else of the
\* application state: not the catalog, the stats, the filters or the
\* detail-view selection, nor the user, the view or the pending operations.
\* The outcome of Stop is thus a fixed session state on an unchanged rest, so
\* a further Stop ends in the state the first one left.
C18_StopClearsSession ==
  [][ stopTrainingSession
      => ( /\ StoppedTraining'
           /\ UNCHANGED <<catVars, filters, detailVars>>
           /\ UNCHANGED <<authVars, view, resettingProgress, tasks>> )
    ]_vars

\* C18 witness: Stop has ended a session, with a question open in the detail
\* view, a filter set and a loaded catalog
C18_Witness ==
  /\ stopped /\ StoppedTraining
  /\ selectedQuestion.id /= 0 /\ filters.onlyUnsolved
  /\ questions /= <<>> /\ stats /= NoStats

\* C19: the id of the question open in the detail view changes only in a
\* step of the user opening a question, of a logout or of a successful
\* progress reset; never in the completion of a mark or of a catalog refresh.
C19_DetailIdChangesOnlyByUser ==
  [][ selectedQuestion'.id /= selectedQuestion.id
      => \/ \E q \in {filteredQuestions[k] : k \in 1..Len(filteredQuestions)} :
              handleSelectQuestion(q)
         \/ handleLogout
         \/ \E i \in 1..MaxTasks : resetProgress_ok(i)
    ]_vars

\* C20: the catalog changes only in a step in which a catalog fetch returns
\* successfully, to the whole fetched catalog, or in a logout, to empty; the
\* stats change only in a step in which a stats fetch returns successfully,
\* to the fetched stats, or in a logout, to absent; a successful progress
\* submission or progress reset by itself changes neither.
C20_CatalogOnlyReplacedOrCleared ==
  [][ /\ questions' /= questions
         => \/ /\ \E i \in 1..MaxTasks : MaySucceed(i, "fetchQuestions")
               /\ questions' = ServerCatalog
            \/ handleLogout /\ questions' = <<>>
      /\ stats' /= stats
         => \/ /\ \E i \in 1..MaxTasks : MaySucceed(i, "fetchStats")
               /\ stats' = ServerStats
            \/ handleLogout /\ stats' = NoStats
      /\ ( \/ \E i \in 1..MaxTasks : updateProgress_ok(i)
           \/ \E i \in 1..MaxTasks : resetProgress_ok(i) )
         => UNCHANGED catVars
    ]_vars

\* C20 witness: a progress submission has succeeded and its refetch has not
\* returned yet; the local catalog still shows the question as before
C20_Witness ==
  \E i \in 1..Len(tasks) :
    /\ tasks[i].kind = "tmark" /\ tasks[i].pc = "fetchQuestions"
    /\ find(questions, tasks[i].qid).id /= 0
    /\ find(questions, tasks[i].qid).attempts < find(ServerCatalog, tasks[i].qid).attempts
    /\ stats /= NoStats

\* likewise after a successful progress reset: the local catalog still shows
\* a solved question, the backend none
C20_WitnessReset ==
  \E i \in 1..Len(tasks) :
    /\ tasks[i].kind = "reset" /\ tasks[i].pc = "fetchQuestions"
    /\ \E k \in 1..Len(questions) : questions[k].is_solved
    /\ srvSolved = {}

\* the step in which handler i learns that its request pc failed
FailedAt(i, pc) ==
  /\ i \in 1..Len(tasks) /\ tasks[i].pc = pc
  /\ \/ handleMarkSolved_catch(i)
     \/ handleTrainingMark_catch(i)
     \/ startTrainingSession_catch(i)
     \/ handleResetProgress_catch(i)
     \/ init_catch(i)
     \/ handleAuthSubmit_catch(i)

\* C21: a failed catalog fetch changes neither the catalog, the open detail
\* question nor the current training question; a failed stats fetch does not
\* change the stats.
C21_FailedRefreshKeepsData ==
  [][ /\ (\E i \in 1..MaxTasks : FailedAt(i, "fetchQuestions"))
         => UNCHANGED <<questions, selectedQuestion, trainingQuestion>>
      /\ (\E i \in 1..MaxTasks : FailedAt(i, "fetchStats"))
         => UNCHANGED stats
    ]_vars

\* C21 witness: the refresh after a detail-view mark has failed at the catalog
\* fetch; the catalog loaded before and the open question are still there,
\* behind the backend
C21_Witness ==
  /\ infoMessage = ErrorMessage("save_error", "fetchQuestions")
  /\ questions /= <<>> /\ questions /= ServerCatalog
  /\ selectedQuestion.id /= 0 /\ stats /= NoStats

\* likewise for a stats fetch failed after a training mark
C21_WitnessStats ==
  /\ trainingInfoMessage = ErrorMessage("save_error", "fetchStats")
  /\ stats /= NoStats /\ stats /= ServerStats
  /\ trainingQuestion.id /= 0

\* C22: a click on a list row whose id differs from the open question's
\* makes that row the open question, restarts the attempt clock, hides the
\* three reveal flags and clears the message; a click on the row of the open
\* question restarts the attempt clock and leaves the open question object,
\* the reveal flags and the message as they are.
C22_OpenResetsReopenKeeps ==
  [][ \A q \in {filteredQuestions[k] : k \in 1..Len(filteredQuestions)} :
        handleSelectQuestion(q)
        => IF q.id /= selectedQuestion.id
           THEN /\ selectedQuestion' = q
                /\ startTime' = now
                /\ ~showHint' /\ ~showSolution' /\ ~showAnswer'
                /\ infoMessage' = Message("none")
           ELSE /\ startTime' = now
                /\ UNCHANGED <<selectedQuestion, showHint, showSolution, showAnswer, infoMessage>>
    ]_vars

\* C22 witness: with a single question in the catalog, opened at the first
\* instant and marked at a later one with the hint shown, the attempt clock
\* has been restarted while the submission is still in flight, which only a
\* click on the open row does; the hint is still shown
C22_Witness ==
  /\ Len(questions) = 1 /\ selectedQuestion.id /= 0
  /\ now > TickMs /\ startTime = now /\ showHint
  /\ \E i \in 1..Len(tasks) :
       tasks[i].kind = "mark" /\ tasks[i].pc = "updateProgress" /\ tasks[i].delta > 1

\* the step in which handler i learns that a request it sent without a valid
\* credential was rejected
AuthFailedAt(i) ==
  /\ i \in 1..Len(tasks) /\ ~tasks[i].tok /\ tasks[i].pc \notin {"login", "register"}
  /\ \/ handleMarkSolved_catch(i)
     \/ handleTrainingMark_catch(i)
     \/ startTrainingSession_catch(i)
     \/ handleResetProgress_catch(i)
     \/ init_catch(i)
     \/ handleAuthSubmit_catch(i)

\* C23: when a remote call other than login or register is rejected for lack of a valid
\* credential, the step that handles the rejection ends logged out with all
\* local state cleared: no user, empty catalog, no stats, no open question,
\* no training question and no running session.
C23_AuthFailureForcesLogout ==
  [][ (\E i \in 1..MaxTasks : AuthFailedAt(i))
      => ( /\ ~user' /\ questions' = <<>> /\ stats' = NoStats
           /\ selectedQuestion'.id = 0
           /\ trainingQuestion'.id = 0 /\ ~trainingModeRunning' )
    ]_vars

\* a resetProgress request is dispatched in this step
ResetDispatched ==
  /\ Len(tasks') = Len(tasks) + 1
  /\ tasks'[Len(tasks')].pc = "resetProgress"

\* C24: a resetProgress request is dispatched only in a step of the reset
\* button whose prompt was confirmed; a step of the reset button whose prompt
\* was declined dispatches nothing and changes no state: user, catalog,
\* stats, selection, training session, filters, resetting flag, pending
\* operations and backend are as before.
C24_ResetNeedsConfirmation ==
  [][ /\ ResetDispatched => (handleResetProgress(TRUE) /\ ~declined')
      /\ handleResetProgress(FALSE)
         => ( /\ declined'
              /\ UNCHANGED <<authVars, catVars, detailVars, trainVars, view, miscVars,
                             envVars, tasks>> )
    ]_vars

\* C24 witness: the prompt has been declined in the stats view with solved
\* questions on record; nothing is in flight and the flag is down
C24_Witness ==
  /\ declined /\ view = "stats" /\ ~resettingProgress /\ tasks = <<>>
  /\ srvSolved /= {} /\ stats /= NoStats
  /\ \E k \in 1..Len(questions) : questions[k].is_solved

\* handler i of the given kind ends in this step
Ends(i, kind) ==
  /\ i \in 1..Len(tasks) /\ tasks[i].kind = kind
  /\ tasks' = Remove(tasks, i)

\* C25: a mutating operation that ends otherwise than by completing leaves a
\* failure message for its view: a detail-view mark the detail view's save
\* error, a training mark the training view's save error, a progress reset
\* the failure alert of the stats view, a login or register the
\* authentication error of the login form.
C25_FailureIsReported ==
  [][ \A i \in 1..MaxTasks :
        /\ (Ends(i, "mark") /\ ~handleMarkSolved_done(i))
           => infoMessage'.what = "save_error"
        /\ (Ends(i, "tmark") /\ ~handleTrainingMark_done(i))
           => trainingInfoMessage'.what = "save_error"
        /\ (Ends(i, "reset") /\ ~handleResetProgress_done(i))
           => alerted'
        /\ (Ends(i, "auth") /\ ~handleAuthSubmit_done(i))
           => authError'
    ]_vars

\* C25 witness: a confirmed progress reset has failed and the alert has been
\* shown; a detail-view mark and a training mark had failed before, and
\* their messages are still set
C25_Witness ==
  /\ alerted /\ ~resettingProgress /\ tasks = <<>>
  /\ srvSolved /= {}
  /\ infoMessage.what = "save_error"
  /\ trainingInfoMessage.what = "save_error"

\* likewise for a login or register that failed before a token was stored
C25_WitnessRegister ==
  /\ authError /\ ~loading /\ ~user /\ ~token /\ tasks = <<>>

\* the six dimensions of the criteria f on a question q
DifficultyOk(q, f) == f.difficulty /= "" => q.difficulty = f.difficulty

TopicOk(q, f) == f.topics /= {} => q.topic \in f.topics

CompanyOk(q, f) == f.company /= "" => f.company \in q.companies

TagsOk(q, f) == f.tags \subseteq q.tags

UnsolvedOk(q, f) == f.onlyUnsolved => ~q.is_solved

SearchOk(q, f) ==
  f.search /= <<>>
  => LET text == toLowerCase(q.title \o <<" ">> \o q.task_text)
         s == toLowerCase(f.search)
     IN \E a, b \in 0..Len(text) : a + Len(s) + b = Len(text)
                                   /\ \A k \in 1..Len(s) : text[a + k] = s[k]

OneMoreConstraint(f) ==
  (IF f.difficulty = "" THEN {[f EXCEPT !.difficulty = d] : d \in FilterDifficulties} ELSE {})
  \cup (IF f.company = "" THEN {[f EXCEPT !.company = c] : c \in FilterCompanies} ELSE {})
  \cup (IF f.topics = {} THEN {[f EXCEPT !.topics = {t}] : t \in 1..MaxTopic} ELSE {})
  \cup {[f EXCEPT !.tags = f.tags \cup {t}] : t \in (0..MaxTag) \ f.tags}
  \cup (IF f.onlyUnsolved THEN {} ELSE {[f EXCEPT !.onlyUnsolved = TRUE]})
  \cup (IF f.search = <<>> THEN {[f EXCEPT !.search = str] : str \in Searches \ {<<>>}} ELSE {})

\* C27: for the catalog and the criteria at hand, every criteria with one
\* more constraint (a dimension activated, or one more tag selected) lets
\* through only questions that the criteria at hand let through.
C27_FilterMonotonic ==
  \A f2 \in OneMoreConstraint(filters) :
    \A k \in 1..Len(questions) :
      matchesFilters(questions[k], f2) => matchesFilters(questions[k], filters)

\* C27 witness: one tag is selected and two questions are listed; selecting
\* the second tag as well would drop one of them and keep the other
C27_Witness ==
  /\ user /\ filters.tags = {MaxTag} /\ Len(filteredQuestions) = 2
  /\ \E f2 \in OneMoreConstraint(filters) :
       /\ f2.tags = 1..MaxTag
       /\ \E j, k \in 1..Len(filteredQuestions) :
            /\ matchesFilters(filteredQuestions[j], f2)
            /\ ~matchesFilters(filteredQuestions[k], f2)

\* C28: under a non-empty search text, a question with neither title nor
\* body is not in the filtered result.
C28_NoTextNeverMatches ==
  filters.search /= <<>>
  => \A j \in 1..Len(filteredQuestions) :
       filteredQuestions[j].title /= <<>> \/ filteredQuestions[j].task_text /= <<>>

\* xs is obtained from ys by leaving elements out: each element of xs is
\* matched with the first element of ys not yet passed that equals it
RECURSIVE IsSubsequence(_, _)
IsSubsequence(xs, ys) ==
  IF xs = <<>> THEN TRUE
  ELSE IF ys = <<>> THEN FALSE
  ELSE IF Head(xs) = Head(ys) THEN IsSubsequence(Tail(xs), Tail(ys))
  ELSE IsSubsequence(xs, Tail(ys))

\* C29: in every step (each is the use of a filter control) the filtered
\* result is, before and after, the catalog with some questions left out
\* (only catalog questions, each at most once, in the order of the catalog),
\* and the catalog is not changed.
C29_FilteredIsSubsequence ==
  [][ /\ IsSubsequence(filteredQuestions, questions)
      /\ IsSubsequence(filteredQuestions', questions')
      /\ questions' = questions
    ]_vars

\* C29 witness: of a catalog of three questions the first and the last are
\* listed, in that order, after a filter control was used; the first is
\* solved and the last is not
C29_Witness ==
  /\ user /\ Len(questions) = MaxCatalog /\ filters.tags /= {} /\ filters.search /= <<>>
  /\ filteredQuestions = <<questions[1], questions[MaxCatalog]>>
  /\ questions[1].is_solved /\ ~questions[MaxCatalog].is_solved


\* the values of a list, and a list that names each of its values once
Values(xs) == {xs[k] : k \in 1..Len(xs)}
NoDuplicates(xs) == Cardinality(Values(xs)) = Len(xs)
Sorted(xs) == \A i, j \in 1..Len(xs) : i < j => xs[i] < xs[j]

\* the place of the first question of the catalog with difficulty d
FirstWith(d) ==
  CHOOSE k \in 1..Len(questions) :
    /\ questions[k].difficulty = d
    /\ \A j \in 1..(k - 1) : questions[j].difficulty /= d

\* C30: whatever the criteria, each facet list is what the catalog alone
\* determines: it holds exactly the distinct non-empty values of the catalog,
\* none twice; the topics and the tags are sorted, and the difficulties stand
\* in the order in which the catalog first names them. No criterion occurs
\* in this description, so no change of a criterion changes a list.
C30_FacetsFromCatalogOnly ==
  /\ Values(uniqueDifficulties) = {questions[k].difficulty : k \in 1..Len(questions)} \ {""}
  /\ Values(uniqueTopics) = {questions[k].topic : k \in 1..Len(questions)} \ {0}
  /\ Values(uniqueTags) = UNION {questions[k].tags : k \in 1..Len(questions)} \ {0}
  /\ NoDuplicates(uniqueDifficulties) /\ NoDuplicates(uniqueTopics) /\ NoDuplicates(uniqueTags)
  /\ Sorted(uniqueTopics) /\ Sorted(uniqueTags)
  /\ \A i, j \in 1..Len(uniqueDifficulties) :
       i < j => FirstWith(uniqueDifficulties[i]) < FirstWith(uniqueDifficulties[j])

\* C30 witness: a catalog that names a topic twice and out of order, has a
\* question without topic and an empty tag, under criteria that hide every
\* question of one topic: the topic list still names both topics
C30_Witness ==
  /\ user /\ Len(questions) = MaxCatalog
  /\ questions[1].topic = MaxTopic /\ questions[2].topic = 1 /\ questions[MaxCatalog].topic = MaxTopic
  /\ 0 \in questions[1].tags
  /\ filters.topics = {1}
  /\ Len(filteredQuestions) = 1
  /\ uniqueTopics = <<1, MaxTopic>>
  /\ uniqueTags = <<MaxTag>>
  /\ uniqueDifficulties = <<"easy", "hard">>


\* the submissions of view kind for question id that are awaiting their answer
Submissions(kind, id) ==
  {i \in 1..Len(tasks) :
     tasks[i].kind = kind /\ tasks[i].pc = "updateProgress" /\ tasks[i].qid = id}

\* C31: a mark-solved invoked on an unsolved current question while a
\* submission for that question is still awaiting its answer dispatches one
\* more submission for it (detail view and training mode): nothing queues or
\* locks the second click.
C31_SecondMarkAlsoDispatches ==
  [][ /\ ( /\ handleMarkSolved(TRUE)
           /\ selectedQuestion.id /= 0 /\ ~selectedQuestion.is_solved
           /\ Submissions("mark", selectedQuestion.id) /= {} )
         => Cardinality(Submissions("mark", selectedQuestion.id)')
              = Cardinality(Submissions("mark", selectedQuestion.id)) + 1
      /\ ( /\ handleTrainingMark(TRUE)
           /\ trainingQuestion.id /= 0 /\ ~trainingQuestion.is_solved
           /\ Submissions("tmark", trainingQuestion.id) /= {} )
         => Cardinality(Submissions("tmark", trainingQuestion.id)')
              = Cardinality(Submissions("tmark", trainingQuestion.id)) + 1
    ]_vars

\* C31 witness: two mark-solved submissions for the open, unsolved question
\* are awaiting their answers
C31_Witness ==
  /\ selectedQuestion.id /= 0 /\ ~selectedQuestion.is_solved
  /\ Len(tasks) = MaxTasks
  /\ \A i \in 1..Len(tasks) :
       /\ tasks[i].kind = "mark" /\ tasks[i].pc = "updateProgress"
       /\ tasks[i].qid = selectedQuestion.id /\ tasks[i].solved

\* likewise in training mode
C31_WitnessTraining ==
  /\ trainingQuestion.id /= 0 /\ ~trainingQuestion.is_solved /\ trainingModeRunning
  /\ Len(tasks) = MaxTasks
  /\ \A i \in 1..Len(tasks) :
       /\ tasks[i].kind = "tmark" /\ tasks[i].pc = "updateProgress"
       /\ tasks[i].qid = trainingQuestion.id /\ tasks[i].solved


\* the reveal flag named which, of the training flags or the detail flags fs
Flag(fs, which) ==
  IF which = "hint" THEN fs[1] ELSE IF which = "solution" THEN fs[2] ELSE fs[3]

\* C32: a press of one reveal button, in training mode or in the detail
\* view, inverts the flag of that button and leaves the two other flags of
\* the view, the view's current question, its start timestamp, the catalog
\* and the view's message as they were.
C32_RevealFlipsOnlyItsFlag ==
  [][ \A w \in {"hint", "solution", "answer"} :
        /\ toggleTrainingReveal(w)
           => /\ Flag(trainingFlags, w)' = ~Flag(trainingFlags, w)
              /\ \A o \in {"hint", "solution", "answer"} \ {w} :
                   Flag(trainingFlags, o)' = Flag(trainingFlags, o)
              /\ UNCHANGED <<trainingQuestion, trainingStartTime, questions,
                             trainingInfoMessage>>
        /\ toggleReveal(w)
           => /\ Flag(detailFlags, w)' = ~Flag(detailFlags, w)
              /\ \A o \in {"hint", "solution", "answer"} \ {w} :
                   Flag(detailFlags, o)' = Flag(detailFlags, o)
              /\ UNCHANGED <<selectedQuestion, startTime, questions, infoMessage>>
    ]_vars

\* C32 witness: in a running session with a message shown, the answer is
\* revealed while the solution, revealed before it, still is and the hint
\* is hidden
C32_Witness ==
  /\ trainingModeRunning /\ trainingQuestion.id /= 0 /\ trainingStartTime /= NoTime
  /\ trainingInfoMessage /= Message("none")
  /\ ~trainingShowHint /\ trainingShowSolution /\ trainingShowAnswer

\* likewise in the detail view: only the answer is revealed, with no hint or
\* solution revealed first
C32_WitnessDetail ==
  /\ selectedQuestion.id /= 0 /\ startTime /= NoTime
  /\ infoMessage /= Message("none")
  /\ ~showHint /\ ~showSolution /\ showAnswer


\* the whole number nearest to ms / 1000, the upper one of two equally near
Nearest(ms) ==
  CHOOSE r \in -(2 * (MaxTicks + 1))..(2 * (MaxTicks + 1)) :
    MsPerSec * r - (MsPerSec \div 2) <= ms /\ ms < MsPerSec * r + (MsPerSec \div 2)

\* the elapsed seconds to submit at time end for an attempt started at start
Elapsed(end, start) ==
  IF start = NoTime THEN DefaultDeltaSec
  ELSE IF Nearest(end - start) < 1 THEN 1 ELSE Nearest(end - start)

C33_WitnessRounded ==
  /\ trainingStartTime /= NoTime /\ now = trainingStartTime + TickMs
  /\ \E i \in 1..Len(tasks) :
       /\ tasks[i].kind = "tmark" /\ tasks[i].pc = "updateProgress"
       /\ tasks[i].delta = Nearest(TickMs) /\ tasks[i].delta > TickMs \div MsPerSec

\* a submission dispatched at the instant of the start carries one second
C33_WitnessClamped ==
  /\ trainingStartTime = now
  /\ \E i \in 1..Len(tasks) :
       /\ tasks[i].kind = "tmark" /\ tasks[i].pc = "updateProgress"
       /\ tasks[i].delta = MinDeltaSec


\* C34: when a confirmed progress reset ends after its reset request and
\* both refreshes succeeded, no question is open in the detail view, no
\* training question is current and training is not running; when the reset
\* request itself fails, the catalog, the stats, the open question and the
\* training session are as before; either way the resetting flag is false
\* again.
C34_ResetOutcome ==
  [][ \A i \in 1..MaxTasks :
        /\ handleResetProgress_done(i)
           => /\ selectedQuestion' = NoQuestion
              /\ trainingQuestion' = NoQuestion
              /\ ~trainingModeRunning'
              /\ ~resettingProgress'
        /\ (handleResetProgress_catch(i) /\ tasks[i].pc = "resetProgress")
           => /\ UNCHANGED <<catVars, selectedQuestion, trainVars>>
              /\ ~resettingProgress'
    ]_vars


\* C35: while training is running there is a current training question and a
\* start timestamp.
C35_RunningHasQuestionAndStart ==
  trainingModeRunning => trainingQuestion.id /= 0 /\ trainingStartTime /= NoTime

\* C35 witness: the session is running on a question it advanced to after a
\* mark, with the start timestamp taken at the advance
C35_Witness ==
  /\ user /\ view = "training" /\ trainingModeRunning
  /\ trainingQuestion.id /= 0 /\ trainingStartTime > TickMs
  /\ trainingInfoMessage = Message("none") /\ stats /= NoStats /\ tasks = <<>>
  /\ srvAttempts[trainingQuestion.id] > 0


\* C36: while training is not running the session holds neither a current
\* training question nor a start timestamp.
C36_IdleHoldsNoSession ==
  ~trainingModeRunning => trainingQuestion = NoQuestion /\ trainingStartTime = NoTime


\* C37: training runs only in the training view: after every step, running
\* implies that the view is the training view; a step to the questions or
\* the stats view leaves running false; and running becomes true only in a
\* step of the training button, which also switches to the training view.
C37_RunningOnlyInTrainingView ==
  [][ /\ trainingModeRunning' => view' = "training"
      /\ (view' /= view /\ view' \in {"questions", "stats"}) => ~trainingModeRunning'
      /\ (~trainingModeRunning /\ trainingModeRunning')
         => (startTrainingSession /\ view' = "training")
    ]_vars

\* C37 witness: a session runs in the training view after the user has been
\* to the stats view, where a progress reset failed
C37_Witness ==
  /\ user /\ trainingModeRunning /\ view = "training" /\ alerted /\ tasks = <<>>

\* the user has left a session by the questions button: the view is the
\* questions view and training is not running
C37_WitnessLeft ==
  /\ user /\ view = "questions" /\ ~trainingModeRunning
  /\ trainingQuestion.id /= 0 /\ trainingStartTime /= NoTime /\ ~stopped


\* C38: whenever a user is shown as logged in a credential is stored; so
\* when init has ended either the user is set and the credential kept, or
\* the credential is removed and no user is set.
C38_UserHasCredential ==
  user => token


\* C39: a logout leaves no credential stored, no user, an empty catalog, no
\* stats, no question open in the detail view and no attempt clock for it,
\* the default filters, training not running and no current training
\* question.
C39_LogoutClearsSession ==
  [][ handleLogout
      => /\ ~token' /\ ~user'
         /\ questions' = <<>> /\ stats' = NoStats
         /\ selectedQuestion' = NoQuestion /\ startTime' = NoTime
         /\ filters' = defaultFilters
         /\ ~trainingModeRunning' /\ trainingQuestion' = NoQuestion
    ]_vars

\* C39 witness: the user has logged out of the training view, where a
\* session had been started
C39_Witness ==
  /\ ~user /\ ~token /\ questions = <<>> /\ stats = NoStats
  /\ selectedQuestion = NoQuestion /\ startTime = NoTime /\ filters = defaultFilters
  /\ ~trainingModeRunning /\ trainingQuestion = NoQuestion
  /\ view = "training" /\ trainingStartTime /= NoTime /\ tasks = <<>>

====
